---------------------------- MODULE Spec2Model ----------------------------
(***************************************************************************)
(* A model of the muscle contraction-dynamics engine of MotorNet           *)
(* (src/MotorNet/plants/muscles.py): the Muscle base class and its four    *)
(* variants ReluMuscle, RigidTendonHillMuscle, RigidTendonHillMuscleThelen *)
(* and CompliantTendonHillMuscle; and of the feedback delay buffers of the *)
(* controller built on them (src/motornet/nets/layers.py, GRUNetwork).     *)
(*                                                                         *)
(* Numbers.  The code computes on float32 tensors of shape                 *)
(* (batch, channel, muscle).  Here a real number x is the integer          *)
(* x * SCALE (six decimal digits, results of * and / truncated toward      *)
(* zero), the batch has one element, and a tensor of shape (1, 1, n) is a  *)
(* sequence of n numbers.  A muscle state or geometry state is a sequence  *)
(* of channels, each a sequence over the muscles.  Elementwise operations  *)
(* broadcast a sequence of length 1 as numpy does.                         *)
(***************************************************************************)
EXTENDS Integers, Sequences, FiniteSets, TLC

---------------------------------------------------------------------------
(* Fixed-point arithmetic standing for float32 arithmetic.                 *)

SCALE == 1000 * 1000

LIMB == 10 ^ 3

\* the element of a set of one element: { F(e) : e \in { x } } is F(x), with
\* x computed before F is applied to it
Only(S) == CHOOSE x \in S : TRUE

Abs(x) == IF x < 0 THEN -x ELSE x

Sgn(x) == IF x < 0 THEN -1 ELSE IF x > 0 THEN 1 ELSE 0

Max(a, b) == IF a >= b THEN a ELSE b

Min(a, b) == IF a <= b THEN a ELSE b

\* floor(a * b / SCALE) for a, b >= 0, by limbs so that no intermediate
\* product leaves the 32-bit integers of TLC.
MulNat(a, b) ==
    LET a1 == a \div LIMB
        a0 == a % LIMB
        b1 == b \div LIMB
        b0 == b % LIMB
    IN  a1 * b1 + ((a1 * b0 + a0 * b1 + ((a0 * b0) \div LIMB)) \div LIMB)

\* x * y
Mul(x, y) == Sgn(x) * Sgn(y) * MulNat(Abs(x), Abs(y))

\* one step of the long division by b: qr is << the digits found so far, the
\* remainder >>
FracDigit(qr, b) == << qr[1] * 10 + (qr[2] * 10) \div b, (qr[2] * 10) % b >>

\* floor(r * SCALE / b) for 0 <= r < b : six digits of the long division
FracDigits(r, b) ==
    Only({ FracDigit(qr, b) : qr \in
         { FracDigit(qr, b) : qr \in
         { FracDigit(qr, b) : qr \in
         { FracDigit(qr, b) : qr \in
         { FracDigit(qr, b) : qr \in
         { FracDigit(<< 0, r >>, b) } } } } } })[1]

\* floor(a * SCALE / b) for a >= 0, b > 0
DivNat(a, b) == (a \div b) * SCALE + FracDigits(a % b, b)

\* x / y  (y # 0)
Div(x, y) == Sgn(x) * Sgn(y) * DivNat(Abs(x), Abs(y))

\* x ** 2
Sq(x) == MulNat(Abs(x), Abs(x))

\* whether c * c <= x for c >= 0 : floor(c * c) < x, or floor(c * c) = x
\* and c * c has no digit beyond the sixth
SqAtMost(c, x) ==
    \/ MulNat(c, c) < x
    \/ /\ MulNat(c, c) = x
       /\ (((2 * (c \div LIMB) * (c % LIMB)) % LIMB) * LIMB + (c % LIMB) * (c % LIMB))
              % SCALE = 0

\* the greatest r + d * step, d a digit, whose square is at most x
SqrtDigit(x, r, step) ==
    r + step * (Cardinality({ d \in 0..9 : /\ r + d * step <= 46 * SCALE
                                            /\ SqAtMost(r + d * step, x) })
                - 1)

\* tf.sqrt(x) for x >= 0 : the greatest r with r * r <= x, digit by digit
\* from the digit of weight 10 down; the root is at most 46, the range of the
\* numbers
Sqrt(x) ==
    Only({ SqrtDigit(x, r, 1) : r \in
         { SqrtDigit(x, r, 10) : r \in
         { SqrtDigit(x, r, 100) : r \in
         { SqrtDigit(x, r, 1000) : r \in
         { SqrtDigit(x, r, 10000) : r \in
         { SqrtDigit(x, r, 100000) : r \in
         { SqrtDigit(x, r, 1000000) : r \in
         { SqrtDigit(x, 0, 10 * SCALE) } } } } } } } })

\* e and 1/e
EULER == 2718282

EULER_INV == 367879

\* 1 + f/k * t
ExpStep(f, k, t) == SCALE + MulNat(f \div k, t)

\* 1 + f * (1 + f/2 * (1 + f/3 * (...))) : the Taylor series of exp(f),
\* 0 <= f < 1, to the term of degree 12
ExpSeries(f) ==
    Only({ ExpStep(f, 1, t) : t \in
         { ExpStep(f, 2, t) : t \in
         { ExpStep(f, 3, t) : t \in
         { ExpStep(f, 4, t) : t \in
         { ExpStep(f, 5, t) : t \in
         { ExpStep(f, 6, t) : t \in
         { ExpStep(f, 7, t) : t \in
         { ExpStep(f, 8, t) : t \in
         { ExpStep(f, 9, t) : t \in
         { ExpStep(f, 10, t) : t \in
         { ExpStep(f, 11, t) : t \in
         { ExpStep(f, 12, SCALE) } } } } } } } } } } } })

\* p * base if the k-th factor is one of the n factors of base ^ n
PowStep(base, n, k, p) == IF k <= n THEN MulNat(base, p) ELSE p

\* base ^ n, factor by factor, for base = e (n <= 7 within the range of the
\* numbers) and base = 1/e (whose powers from the 14th on are 0)
PowNat(base, n) ==
    Only({ PowStep(base, n, 14, p) : p \in
         { PowStep(base, n, 13, p) : p \in
         { PowStep(base, n, 12, p) : p \in
         { PowStep(base, n, 11, p) : p \in
         { PowStep(base, n, 10, p) : p \in
         { PowStep(base, n, 9, p) : p \in
         { PowStep(base, n, 8, p) : p \in
         { PowStep(base, n, 7, p) : p \in
         { PowStep(base, n, 6, p) : p \in
         { PowStep(base, n, 5, p) : p \in
         { PowStep(base, n, 4, p) : p \in
         { PowStep(base, n, 3, p) : p \in
         { PowStep(base, n, 2, p) : p \in
         { PowStep(base, n, 1, SCALE) } } } } } } } } } } } } } })

\* tf.exp(x)
Exp(x) ==
    LET n == Abs(x) \div SCALE
        f == Abs(x) % SCALE
    IN  IF x >= 0 THEN MulNat(PowNat(EULER, n), ExpSeries(f))
        ELSE DivNat(PowNat(EULER_INV, n), ExpSeries(f))

\* tf.clip_by_value(t, lo, hi) = maximum(minimum(t, hi), lo)
clip_by_value(t, lo, hi) == Max(Min(t, hi), lo)

\* tf.nn.relu
relu(x) == Max(x, 0)

---------------------------------------------------------------------------
(* Tensors of shape (1, 1, n) as sequences, with numpy broadcasting.       *)

\* Python's None, for an attribute that holds a tensor
None == << >>

\* Python's None, for an attribute that holds a number (dt, n_muscles)
NoneNum == -1

\* a Python scalar used as an operand
K(c) == << c >>

\* np.array(x).size ; np.array(None).size is 1
size(t) == IF t = None THEN 1 ELSE Len(t)

\* whether two shapes (1, 1, m) and (1, 1, n) broadcast together
Broadcastable(m, n) == m = n \/ m = 1 \/ n = 1

\* a function on 1..n as the sequence of its values
Tuple(f) == f \o << >>

At(t, i) == t[IF Len(t) = 1 THEN 1 ELSE i]

Width(s, t) == IF Len(s) = 1 THEN Len(t) ELSE Len(s)

add(s, t) == Tuple([i \in 1..Width(s, t) |-> At(s, i) + At(t, i)])

sub(s, t) == Tuple([i \in 1..Width(s, t) |-> At(s, i) - At(t, i)])

mul(s, t) == Tuple([i \in 1..Width(s, t) |-> Mul(At(s, i), At(t, i))])

div(s, t) == Tuple([i \in 1..Width(s, t) |-> Div(At(s, i), At(t, i))])

neg(s) == Tuple([i \in 1..Len(s) |-> -s[i]])

square(s) == Tuple([i \in 1..Len(s) |-> Sq(s[i])])

tf_sqrt(s) == Tuple([i \in 1..Len(s) |-> Sqrt(s[i])])

tf_exp(s) == Tuple([i \in 1..Len(s) |-> Exp(s[i])])

tf_maximum(s, t) == Tuple([i \in 1..Width(s, t) |-> Max(At(s, i), At(t, i))])

tf_minimum(s, t) == Tuple([i \in 1..Width(s, t) |-> Min(At(s, i), At(t, i))])

lt(s, t) == Tuple([i \in 1..Width(s, t) |-> At(s, i) < At(t, i)])

le(s, t) == Tuple([i \in 1..Width(s, t) |-> At(s, i) <= At(t, i)])

gt(s, t) == Tuple([i \in 1..Width(s, t) |-> At(s, i) > At(t, i)])

ge(s, t) == Tuple([i \in 1..Width(s, t) |-> At(s, i) >= At(t, i)])

logical_and(s, t) == Tuple([i \in 1..Width(s, t) |-> At(s, i) /\ At(t, i)])

\* tf.sqrt(s * t) for s, t >= 0.  The product k_pe * k_se is beyond the range
\* of the fixed-point numbers, so the root is taken factor by factor.
sqrt_of_product(s, t) == mul(tf_sqrt(s), tf_sqrt(t))

\* tf.where(condition, x, y)
tf_where(c, s, t) ==
    Tuple([i \in 1..Width(c, IF Len(s) = 1 THEN t ELSE s) |->
              IF At(c, i) THEN At(s, i) ELSE At(t, i)])

\* tf.clip_by_value(t, lo, hi) on a tensor
tf_clip_by_value(t, lo, hi) == Tuple([i \in 1..Len(t) |-> clip_by_value(t[i], lo, hi)])

\* tf.nn.relu on a tensor
tf_relu(t) == Tuple([i \in 1..Len(t) |-> relu(t[i])])

ones(n) == Tuple([i \in 1..n |-> SCALE])

zeros(n) == Tuple([i \in 1..n |-> 0])

ones_like(t) == ones(Len(t))

zeros_like(t) == zeros(Len(t))

\* tf.reshape(tf.cast(t, tf.float32), (1, 1, n)) raises on None and on a
\* tensor whose size is not n
ReshapeRaises(t, n) == t = None \/ Len(t) # n

\* tf.concat(channels, axis=1) raises unless all channels have one width
ConcatRaises(channels) == \E c \in DOMAIN channels : Len(channels[c]) # Len(channels[1])

---------------------------------------------------------------------------
(* The instance: Muscle.__init__ and the constructors of the variants.     *)

VARIABLES
    variant,                  \* self.__name__ : the class of the instance
    min_activation,           \* self.min_activation
    built,                    \* self.built
    dt,                       \* self.dt
    n_muscles,                \* self.n_muscles
    max_iso_force,            \* self.max_iso_force
    vmax,                     \* self.vmax
    l0_se,                    \* self.l0_se
    l0_ce,                    \* self.l0_ce
    l0_pe,                    \* self.l0_pe
    musculotendon_slack_len,  \* self.musculotendon_slack_len
    k_pe,                     \* self.k_pe
    ce_0, ce_1, ce_2, ce_3, ce_4, ce_5,   \* self.ce_0 .. self.ce_5 (Thelen)
    geometry_state,           \* the plant's geometry state: <<length, velocity>>
    muscle_state,             \* the muscle state the caller holds and passes on
    returned,                 \* what the most recent call returned (None if it raised)
    call,                     \* the most recent operation: [op, raised]
    n_integrate,              \* number of integrate calls so far
    n_build,                  \* number of build calls so far
    proprioceptive_delay,     \* GRUNetwork: self.proprioceptive_delay
    visual_delay,             \* GRUNetwork: self.visual_delay
    proprioceptive_noise_sd,  \* GRUNetwork: self.proprioceptive_noise_sd
    visual_noise_sd,          \* GRUNetwork: self.visual_noise_sd
    states,                   \* the states the network's caller holds and passes on:
                              \* <<jstate, cstate, mstate, gstate, proprio, visual>>
    proprio_fb,               \* the proprioceptive feedback the last call fed to the network
    visual_fb,                \* the visual feedback the last call fed to the network
    produced,                 \* <<proprio_true, visual_true>> of get_initial_state and of
                              \* every call since, in order
    n_call                    \* number of calls of the network that returned

config == << built, dt, n_muscles, max_iso_force, vmax, l0_se, l0_ce, l0_pe,
             musculotendon_slack_len, k_pe, ce_0, ce_1, ce_2, ce_3, ce_4, ce_5 >>

instance == << variant, min_activation >>

caller == << geometry_state, muscle_state >>

\* the network (GRUNetwork) built on the plant of the muscle
network == << proprioceptive_delay, visual_delay, proprioceptive_noise_sd, visual_noise_sd,
             states, proprio_fb, visual_fb, produced, n_call >>

vars == << instance, config, caller, returned, call, n_integrate, n_build, network >>

Variants == { "ReluMuscle", "RigidTendonHillMuscle", "RigidTendonHillMuscleThelen",
              "CompliantTendonHillMuscle" }

HillVariants == Variants \ { "ReluMuscle" }

RigidVariants == { "RigidTendonHillMuscle", "RigidTendonHillMuscleThelen" }

\* the default of min_activation in each constructor
DefaultMinActivation(v) ==
    CASE v = "ReluMuscle" -> 0
      [] v = "RigidTendonHillMuscle" -> 1000
      [] v = "RigidTendonHillMuscleThelen" -> 1000
      [] v = "CompliantTendonHillMuscle" -> 10000

tau_activation == 15000

tau_deactivation == 50000

\* constants set by the constructors of the Hill variants
pe_k == 5000000

pe_1 == Div(pe_k, 660000)

pe_den == Exp(pe_k) - SCALE

ce_gamma == 450000

ce_Af == 250000

ce_fmlen == 1400000

s_as == 1000

f_iso_n_den == Sq(660000)

b_rel_st_den == 5000 - 300000

k_se == Div(SCALE, Sq(40000))

q_crit == 300000

min_flce == 10000

---------------------------------------------------------------------------
(* The numeric operations.  Each returns [raised, value]: value is the     *)
(* tensor returned, a sequence of channels, and None when the call raised. *)
(*                                                                         *)
(* A method is written as the composition of its steps in source order.    *)
(* Each step takes the record e of the local variables assigned so far and *)
(* adds the ones it assigns, under their names in the source.              *)

Return(v) == [raised |-> FALSE, value |-> v]

Raise == [raised |-> TRUE, value |-> None]

\* self.concat((channels, 1))
concat(channels) == IF ConcatRaises(channels) THEN Raise ELSE Return(channels)

\* _activation_ode taking activation - excitation for excitation - activation
_activation_ode_reversed(excitation, activation) ==
    LET excitation_c == tf_clip_by_value(excitation, min_activation, SCALE)
        activation_c == tf_clip_by_value(activation, min_activation, SCALE)
        tau_scaler == add(K(500000), mul(K(1500000), activation_c))
        tau == tf_where(gt(excitation_c, activation_c),
                        mul(K(tau_activation), tau_scaler),
                        div(K(tau_deactivation), tau_scaler))
    IN  div(sub(activation_c, excitation_c), tau)

\* _activation_ode with the time constants of activation and of deactivation
\* taken for each other
_activation_ode_swapped_tau(excitation, activation) ==
    LET excitation_c == tf_clip_by_value(excitation, min_activation, SCALE)
        activation_c == tf_clip_by_value(activation, min_activation, SCALE)
        tau_scaler == add(K(500000), mul(K(1500000), activation_c))
        tau == tf_where(gt(excitation_c, activation_c),
                        div(K(tau_deactivation), tau_scaler),
                        mul(K(tau_activation), tau_scaler))
    IN  div(sub(excitation_c, activation_c), tau)

\* Muscle._activation_ode
\* _activation_ode without the clipping of the excitation
_activation_ode_unclipped(excitation, activation) ==
    LET activation_c == tf_clip_by_value(activation, min_activation, SCALE)
        tau_scaler == add(K(500000), mul(K(1500000), activation_c))
        tau == tf_where(gt(excitation, activation_c),
                        mul(K(tau_activation), tau_scaler),
                        div(K(tau_deactivation), tau_scaler))
    IN  div(sub(excitation, activation_c), tau)

_activation_ode(excitation, activation) ==
    LET excitation_c == tf_clip_by_value(excitation, min_activation, SCALE)
        activation_c == tf_clip_by_value(activation, min_activation, SCALE)
        tau_scaler == add(K(500000), mul(K(1500000), activation_c))
        tau == tf_where(gt(excitation_c, activation_c),
                        mul(K(tau_activation), tau_scaler),
                        div(K(tau_deactivation), tau_scaler))
    IN  div(sub(excitation_c, activation_c), tau)

\* Muscle.update_ode ; the excitation is reshaped to (-1, 1, n_muscles)
Muscle_update_ode(excitation, state) ==
    LET activation == state[1]
    IN  Return(<< _activation_ode(excitation, activation) >>)

\* integrate_activation without the upper bound of the clipping
integrate_activation_unbounded(dt_, d_activation, state) ==
    LET activation == add(state[1], mul(d_activation, K(dt_)))
    IN  tf_maximum(activation, K(min_activation))

\* the Euler step of the activation and its clipping, the first two lines of
\* every _integrate
integrate_activation(dt_, d_activation, state) ==
    LET activation == add(state[1], mul(d_activation, K(dt_)))
    IN  tf_clip_by_value(activation, min_activation, SCALE)

\* ReluMuscle._integrate : the activation and the geometry
ReluMuscle_locals(dt_, state_derivative, state, geometry) ==
    [activation |-> integrate_activation(dt_, state_derivative[1], state),
     muscle_len |-> geometry[1],
     muscle_vel |-> geometry[2]]

\* ReluMuscle_state with forces that are not scaled by max_iso_force
ReluMuscle_state_unscaled(e) ==
    LET forces == tf_relu(e.activation)
    IN  concat(<< e.activation, e.muscle_len, e.muscle_vel, forces >>)

\* ReluMuscle._integrate : the forces and the state returned
ReluMuscle_state(e) ==
    LET forces == mul(tf_relu(e.activation), max_iso_force)
    IN  concat(<< e.activation, e.muscle_len, e.muscle_vel, forces >>)

\* ReluMuscle._integrate
ReluMuscle_integrate(dt_, state_derivative, state, geometry) ==
    Only({ ReluMuscle_state(e) : e \in
         { ReluMuscle_locals(dt_, state_derivative, state, geometry) } })

\* ReluMuscle._get_initial_muscle_state (batch_size = 1)
ReluMuscle_get_initial_muscle_state(geometry) ==
    LET excitation0 == mul(ones(n_muscles), K(min_activation))
        force0 == zeros(n_muscles)
    IN  concat(<< excitation0, geometry[1], geometry[2], force0 >>)

\* Rigid_geometry with the floor of RigidTendonHillMuscleThelen on muscle_len
Rigid_geometry_floored(dt_, state_derivative, state, geometry) ==
    [activation |-> integrate_activation(dt_, state_derivative[1], state),
     musculotendon_len |-> geometry[1],
     muscle_vel |-> geometry[2],
     muscle_len |-> tf_maximum(sub(geometry[1], l0_se), K(1000))]

\* RigidTendonHillMuscle._integrate : activation, musculotendon geometry
Rigid_geometry(dt_, state_derivative, state, geometry) ==
    [activation |-> integrate_activation(dt_, state_derivative[1], state),
     musculotendon_len |-> geometry[1],
     muscle_vel |-> geometry[2],
     muscle_len |-> tf_maximum(sub(geometry[1], l0_se), K(0))]

Rigid_normalized(e) ==
    [muscle_strain |-> tf_maximum(div(sub(e.muscle_len, l0_pe), l0_ce), K(0)),
     muscle_len_n |-> div(e.muscle_len, l0_ce),
     muscle_vel_n |-> div(e.muscle_vel, vmax)] @@ e

\* RigidTendonHillMuscle._integrate : flpe, flce
Rigid_length_forces(e) ==
    [flpe |-> tf_minimum(mul(k_pe, square(e.muscle_strain)), K(3 * SCALE)),
     flce |-> tf_maximum(
                  add(K(SCALE),
                      div(sub(add(neg(square(e.muscle_len_n)),
                                  mul(K(2 * SCALE), e.muscle_len_n)),
                              K(SCALE)),
                          K(f_iso_n_den))),
                  K(min_flce))] @@ e

\* RigidTendonHillMuscle._integrate : a_rel_st, b_rel_st, p3, p4
Rigid_hill(e) ==
    [a_rel_st |-> tf_where(gt(e.muscle_len_n, K(SCALE)), mul(K(410000), e.flce), K(410000)),
     b_rel_st |-> tf_where(
                      lt(e.activation, K(q_crit)),
                      mul(K(5200000),
                          square(sub(K(SCALE),
                                     mul(K(900000),
                                         div(sub(e.activation, K(q_crit)),
                                             K(5000 - q_crit)))))),
                      K(5200000)),
     p3 |-> mul(mul(K(-1500000), e.flce), e.activation),
     p4 |-> K(-s_as)] @@ e

\* RigidTendonHillMuscle._integrate : dvdf_isom_con, dfdvcon0 and the two
\* subterms that p1 and p2 share
Rigid_slope(e) ==
    LET dvdf_isom_con == div(e.b_rel_st, mul(e.activation, add(e.flce, e.a_rel_st)))
        dfdvcon0 == div(K(SCALE), dvdf_isom_con)
    IN  [fa_half |-> mul(mul(e.flce, e.activation), K(500000)),
         p_den |-> sub(K(s_as), mul(dfdvcon0, K(2 * SCALE)))] @@ e

\* Rigid_p without the square in p2
Rigid_p_unsquared(e) ==
    [p1 |-> neg(div(e.fa_half, e.p_den)),
     p2 |-> div(e.fa_half, e.p_den)] @@ e

\* RigidTendonHillMuscle._integrate : p1, p2
Rigid_p(e) ==
    [p1 |-> neg(div(e.fa_half, e.p_den)),
     p2 |-> div(square(e.fa_half), e.p_den)] @@ e

\* RigidTendonHillMuscle._integrate : nom, den
Rigid_force_velocity(e) ==
    [nom |-> tf_where(
                 lt(e.muscle_vel_n, K(0)),
                 add(mul(mul(e.muscle_vel_n, e.activation), e.a_rel_st),
                     mul(mul(e.flce, e.activation), e.b_rel_st)),
                 sub(sub(add(sub(mul(neg(e.p1), e.p3), mul(mul(e.p1, e.p4), e.muscle_vel_n)),
                             e.p2),
                         mul(e.p3, e.muscle_vel_n)),
                     mul(e.p4, square(e.muscle_vel_n)))),
     den |-> tf_where(lt(e.muscle_vel_n, K(0)),
                      sub(e.b_rel_st, e.muscle_vel_n),
                      add(e.p1, e.muscle_vel_n))] @@ e

\* RigidTendonHillMuscle._integrate : active_force
Rigid_active_force(e) ==
    [active_force |-> tf_maximum(div(e.nom, e.den), K(0))] @@ e

\* RigidTendonHillMuscle._integrate : force and the state returned
Rigid_state(e) ==
    LET force == mul(add(e.active_force, e.flpe), max_iso_force)
    IN  concat(<< e.activation, e.muscle_len, e.muscle_vel, e.flpe, e.flce, e.active_force,
                  force >>)

\* RigidTendonHillMuscle._integrate
RigidTendonHillMuscle_integrate(dt_, state_derivative, state, geometry) ==
    Only({ Rigid_state(e) : e \in
         { Rigid_active_force(e) : e \in
         { Rigid_force_velocity(e) : e \in
         { Rigid_p(e) : e \in
         { Rigid_slope(e) : e \in
         { Rigid_hill(e) : e \in
         { Rigid_length_forces(e) : e \in
         { Rigid_normalized(e) : e \in
         { Rigid_geometry(dt_, state_derivative, state, geometry) } } } } } } } } })

\* RigidTendonHillMuscleThelen._integrate : activation, musculotendon geometry
Thelen_geometry(dt_, state_derivative, state, geometry) ==
    [activation |-> integrate_activation(dt_, state_derivative[1], state),
     musculotendon_len |-> geometry[1],
     muscle_len |-> tf_maximum(sub(geometry[1], l0_se), K(1000)),
     muscle_vel |-> geometry[2]]

\* RigidTendonHillMuscleThelen._integrate : fvce, flpe, flce
Thelen_forces(e) ==
    LET activation3 == mul(e.activation, K(3 * SCALE))
        nom == tf_where(
                   le(e.muscle_vel, K(0)),
                   mul(K(ce_Af),
                       add(add(mul(e.activation, ce_0), mul(K(4 * SCALE), e.muscle_vel)), vmax)),
                   add(add(mul(ce_2, e.activation), mul(ce_3, e.muscle_vel)), ce_4))
        den == tf_where(
                   le(e.muscle_vel, K(0)),
                   sub(add(mul(activation3, ce_1), ce_1), mul(K(4 * SCALE), e.muscle_vel)),
                   add(add(mul(ce_4, activation3), mul(ce_5, e.muscle_vel)), ce_4))
    IN  [fvce |-> tf_maximum(div(nom, den), K(0)),
         flpe |-> tf_maximum(
                      div(sub(tf_exp(div(mul(K(pe_1), sub(e.muscle_len, l0_pe)), l0_ce)),
                              K(SCALE)),
                          K(pe_den)),
                      K(0)),
         flce |-> tf_exp(div(neg(square(sub(div(e.muscle_len, l0_ce), K(SCALE)))),
                             K(ce_gamma)))] @@ e

\* RigidTendonHillMuscleThelen._integrate : force and the state returned
Thelen_state(e) ==
    LET force == mul(add(mul(mul(e.activation, e.flce), e.fvce), e.flpe), max_iso_force)
    IN  concat(<< e.activation, e.muscle_len, e.muscle_vel, e.flpe, e.flce, e.fvce, force >>)

\* RigidTendonHillMuscleThelen._integrate
RigidTendonHillMuscleThelen_integrate(dt_, state_derivative, state, geometry) ==
    Only({ Thelen_state(e) : e \in
         { Thelen_forces(e) : e \in
         { Thelen_geometry(dt_, state_derivative, state, geometry) } } })

\* Muscle.integrate : self._integrate of the instance's class
\* (CompliantTendonHillMuscle_integrate is defined with the compliant model below)
Rigid_integrate(dt_, state_derivative, state, geometry) ==
    IF variant = "RigidTendonHillMuscle"
    THEN RigidTendonHillMuscle_integrate(dt_, state_derivative, state, geometry)
    ELSE RigidTendonHillMuscleThelen_integrate(dt_, state_derivative, state, geometry)

\* RigidTendonHillMuscle._get_initial_muscle_state and
\* RigidTendonHillMuscleThelen._get_initial_muscle_state (the same code)
Rigid_get_initial_muscle_state(geometry) ==
    LET musculotendon_len == geometry[1]
        state0 == << mul(ones_like(musculotendon_len), K(min_activation)) >>
    IN  Rigid_integrate(dt, << zeros_like(musculotendon_len) >>, state0, geometry)

\* CompliantTendonHillMuscle._integrate and ._get_initial_muscle_state :
\* tendon_len, tendon_strain, muscle_strain, flse, flpe from the lengths in e
Compliant_forces(e) ==
    LET tendon_len == sub(e.musculotendon_len, e.muscle_len)
        tendon_strain == tf_maximum(div(sub(tendon_len, l0_se), l0_se), K(0))
        muscle_strain == tf_maximum(div(sub(e.muscle_len, l0_pe), l0_ce), K(0))
    IN  [flse |-> tf_minimum(mul(K(k_se), square(tendon_strain)), K(3 * SCALE)),
         flpe |-> tf_minimum(mul(k_pe, square(muscle_strain)), K(3 * SCALE))] @@ e

\* Compliant_active_force without the floor of active_force at 0
Compliant_active_force_unclamped(e) ==
    [active_force |-> sub(e.flse, e.flpe),
     force |-> mul(e.flse, max_iso_force)] @@ e

\* active_force and force
Compliant_active_force(e) ==
    [active_force |-> tf_maximum(sub(e.flse, e.flpe), K(0)),
     force |-> mul(e.flse, max_iso_force)] @@ e

\* CompliantTendonHillMuscle._integrate : the lengths
Compliant_geometry(state, geometry) ==
    [muscle_len |-> state[2],
     muscle_len_n |-> div(state[2], l0_ce),
     musculotendon_len |-> geometry[1]]

\* Compliant_state with a step of the muscle length that is not scaled by
\* l0_ce
Compliant_state_unscaled(e, dt_, state_derivatives, state) ==
    LET d_activation == state_derivatives[1]
        muscle_vel_n == state_derivatives[2]
        activation == integrate_activation(dt_, d_activation, state)
        new_muscle_len == add(e.muscle_len, mul(K(dt_), muscle_vel_n))
        muscle_vel == mul(muscle_vel_n, vmax)
    IN  concat(<< activation, new_muscle_len, muscle_vel, e.flpe, e.flse, e.active_force,
                  e.force >>)

\* CompliantTendonHillMuscle._integrate : Integrate, and the state returned
Compliant_state(e, dt_, state_derivatives, state) ==
    LET d_activation == state_derivatives[1]
        muscle_vel_n == state_derivatives[2]
        activation == integrate_activation(dt_, d_activation, state)
        new_muscle_len == mul(add(e.muscle_len_n, mul(K(dt_), muscle_vel_n)), l0_ce)
        muscle_vel == mul(muscle_vel_n, vmax)
    IN  concat(<< activation, new_muscle_len, muscle_vel, e.flpe, e.flse, e.active_force,
                  e.force >>)

\* CompliantTendonHillMuscle._integrate
CompliantTendonHillMuscle_integrate(dt_, state_derivatives, state, geometry) ==
    Only({ Compliant_state(e, dt_, state_derivatives, state) : e \in
         { Compliant_active_force(e) : e \in
         { Compliant_forces(e) : e \in
         { Compliant_geometry(state, geometry) } } } })

\* CompliantTendonHillMuscle._muscle_ode : f_iso_n
muscle_ode_f_iso_n(norm_muscle_len, activation, active_force) ==
    LET f_iso_n == add(K(SCALE),
                       div(sub(add(neg(square(norm_muscle_len)),
                                   mul(K(2 * SCALE), norm_muscle_len)),
                               K(SCALE)),
                           K(f_iso_n_den)))
    IN  [norm_muscle_len |-> norm_muscle_len,
         activation |-> activation,
         active_force |-> active_force,
         f_iso_n |-> tf_maximum(f_iso_n, K(10000))]

\* CompliantTendonHillMuscle._muscle_ode : a_rel_st, b_rel_st, f_x_a
muscle_ode_hill(e) ==
    [a_rel_st |-> tf_where(gt(e.norm_muscle_len, K(SCALE)), mul(K(410000), e.f_iso_n),
                           K(410000)),
     b_rel_st |-> tf_where(
                      lt(e.activation, K(300000)),
                      mul(K(5200000),
                          square(sub(K(SCALE),
                                     mul(K(900000),
                                         div(sub(e.activation, K(300000)),
                                             K(b_rel_st_den)))))),
                      K(5200000)),
     f_x_a |-> mul(e.f_iso_n, e.activation)] @@ e

\* CompliantTendonHillMuscle._muscle_ode : dvdf_isom_con, dfdvcon0, p3, p4 and
\* the denominator that p1 and p2_containing_term share
muscle_ode_slope(e) ==
    LET dvdf_isom_con == div(e.b_rel_st, mul(e.activation, add(e.f_iso_n, e.a_rel_st)))
        dfdvcon0 == div(K(SCALE), dvdf_isom_con)
    IN  [p_den |-> sub(K(s_as), mul(dfdvcon0, K(2 * SCALE))),
         p3 |-> mul(K(-1500000), e.f_x_a),
         p4 |-> K(-s_as)] @@ e

\* CompliantTendonHillMuscle._muscle_ode : p1, p2_containing_term
muscle_ode_p(e) ==
    [p1 |-> neg(div(mul(e.f_x_a, K(500000)), e.p_den)),
     p2_containing_term |->
         div(mul(mul(K(4 * SCALE), square(mul(e.f_x_a, K(500000)))), e.p4), e.p_den)] @@ e

\* CompliantTendonHillMuscle._muscle_ode : sqrt_term
muscle_ode_sqrt_term(e) ==
    [sqrt_term |->
         add(add(sub(add(add(sub(square(e.active_force),
                                 mul(mul(mul(K(2 * SCALE), e.active_force), e.p1), e.p4)),
                             mul(mul(K(2 * SCALE), e.active_force), e.p3)),
                         mul(square(e.p1), square(e.p4))),
                     mul(mul(mul(K(2 * SCALE), e.p1), e.p3), e.p4)),
                 e.p2_containing_term),
             square(e.p3))] @@ e

\* muscle_ode_cond looking at the sign of the radicand only
muscle_ode_cond_any_branch(e) ==
    [cond |-> tf_where(lt(e.sqrt_term, K(0)), K(-1), K(1))] @@ e

\* CompliantTendonHillMuscle._muscle_ode : cond
muscle_ode_cond(e) ==
    [cond |-> tf_where(logical_and(lt(e.sqrt_term, K(0)), ge(e.active_force, e.f_x_a)),
                       K(-1), K(1))] @@ e

\* CompliantTendonHillMuscle._muscle_ode : the assertion on cond, and the
\* velocity returned
muscle_ode_velocity(e) ==
    LET sqrt_term == tf_maximum(e.sqrt_term, K(0))
        new_muscle_vel_nom ==
            tf_where(lt(e.active_force, e.f_x_a),
                     mul(e.b_rel_st, sub(e.active_force, e.f_x_a)),
                     sub(sub(add(neg(e.active_force), mul(e.p1, K(s_as))), e.p3),
                         tf_sqrt(sqrt_term)))
        new_muscle_vel_den ==
            tf_where(lt(e.active_force, e.f_x_a),
                     add(e.active_force, mul(e.activation, e.a_rel_st)),
                     K(-2 * s_as))
    IN  \* tf.debugging.assert_non_negative(cond)
        IF \E i \in DOMAIN e.cond : e.cond[i] < 0 THEN Raise
        ELSE Return(div(new_muscle_vel_nom, new_muscle_vel_den))

\* CompliantTendonHillMuscle._muscle_ode down to the radicand sqrt_term
muscle_ode_to_radicand(norm_muscle_len, activation, active_force) ==
    Only({ muscle_ode_sqrt_term(e) : e \in
         { muscle_ode_p(e) : e \in
         { muscle_ode_slope(e) : e \in
         { muscle_ode_hill(e) : e \in
         { muscle_ode_f_iso_n(norm_muscle_len, activation, active_force) } } } } })

\* CompliantTendonHillMuscle._muscle_ode from the radicand on
muscle_ode_from_radicand(e) ==
    Only({ muscle_ode_velocity(e2) : e2 \in { muscle_ode_cond(e) } })

\* CompliantTendonHillMuscle._muscle_ode : [raised, value], value one tensor
_muscle_ode(norm_muscle_len, activation, active_force) ==
    Only({ muscle_ode_from_radicand(e) : e \in
         { muscle_ode_to_radicand(norm_muscle_len, activation, active_force) } })

\* CompliantTendonHillMuscle._get_initial_muscle_state : activation, and
\* the terms of the muscle length at which the passive forces of tendon and
\* muscle are in equilibrium
Compliant_equilibrium_terms(geometry) ==
    [musculotendon_len |-> geometry[1],
     activation |-> mul(ones_like(geometry[1]), K(min_activation)),
     eq_pe |-> mul(mul(k_pe, l0_pe), square(l0_se)),
     eq_se_lmt |-> mul(mul(K(k_se), square(l0_ce)), geometry[1]),
     eq_se_lse |-> mul(mul(K(k_se), square(l0_ce)), l0_se),
     eq_root |-> mul(mul(mul(l0_ce, l0_se), sqrt_of_product(k_pe, K(k_se))),
                     add(add(neg(geometry[1]), l0_pe), l0_se)),
     eq_den |-> sub(mul(k_pe, square(l0_se)), mul(K(k_se), square(l0_ce)))]

\* Compliant_equilibrium without the term k_se * lce ** 2 * l0_se
Compliant_equilibrium_without_slack(e) ==
    [equilibrium |-> div(sub(sub(e.eq_pe, e.eq_se_lmt), e.eq_root), e.eq_den)] @@ e

\* the muscle length at equilibrium
Compliant_equilibrium(e) ==
    [equilibrium |-> div(sub(add(sub(e.eq_pe, e.eq_se_lmt), e.eq_se_lse), e.eq_root),
                         e.eq_den)] @@ e

\* Compliant_initial_length comparing the musculotendon length with l0_se by
\* <= instead of <
Compliant_initial_length_inclusive(e) ==
    [muscle_len |->
         tf_where(
             lt(e.musculotendon_len, K(0)),
             K(-1 * SCALE),
             tf_where(
                 le(e.musculotendon_len, l0_se),
                 mul(K(1000), l0_ce),
                 tf_where(
                     lt(e.musculotendon_len, add(l0_se, l0_pe)),
                     sub(e.musculotendon_len, l0_se),
                     e.equilibrium)))] @@ e

\* Compliant_initial_length giving a negative musculotendon length the
\* muscle length of the second regime instead of -1
Compliant_initial_length_unsigned(e) ==
    [muscle_len |->
         tf_where(
             lt(e.musculotendon_len, l0_se),
             mul(K(1000), l0_ce),
             tf_where(
                 lt(e.musculotendon_len, add(l0_se, l0_pe)),
                 sub(e.musculotendon_len, l0_se),
                 e.equilibrium))] @@ e

\* CompliantTendonHillMuscle._get_initial_muscle_state : the initial muscle
\* length
Compliant_initial_length(e) ==
    [muscle_len |->
         tf_where(
             lt(e.musculotendon_len, K(0)),
             K(-1 * SCALE),
             tf_where(
                 lt(e.musculotendon_len, l0_se),
                 mul(K(1000), l0_ce),
                 tf_where(
                     lt(e.musculotendon_len, add(l0_se, l0_pe)),
                     sub(e.musculotendon_len, l0_se),
                     e.equilibrium)))] @@ e

\* CompliantTendonHillMuscle._get_initial_muscle_state : the call of muscle_ode
Compliant_initial_ode(e) ==
    [ode |-> _muscle_ode(div(e.muscle_len, l0_ce), e.activation, e.active_force)] @@ e

\* CompliantTendonHillMuscle._get_initial_muscle_state : the state returned
Compliant_initial_state(e) ==
    IF e.ode.raised THEN Raise
    ELSE concat(<< e.activation, e.muscle_len, mul(e.ode.value, vmax), e.flpe, e.flse,
                   e.active_force, e.force >>)

\* CompliantTendonHillMuscle._get_initial_muscle_state : the assertion on
\* muscle_len, and what follows it
Compliant_initial_assert(e) ==
    \* tf.debugging.assert_non_negative(muscle_len)
    IF \E i \in DOMAIN e.muscle_len : e.muscle_len[i] < 0 THEN Raise
    ELSE Only({ Compliant_initial_state(e3) : e3 \in
              { Compliant_initial_ode(e2) : e2 \in
              { Compliant_active_force(e1) : e1 \in
              { Compliant_forces(e) } } } })

\* CompliantTendonHillMuscle._get_initial_muscle_state
CompliantTendonHillMuscle_get_initial_muscle_state(geometry) ==
    Only({ Compliant_initial_assert(e) : e \in
         { Compliant_initial_length(e) : e \in
         { Compliant_equilibrium(e) : e \in
         { Compliant_equilibrium_terms(geometry) } } } })

\* CompliantTendonHillMuscle.update_ode : the state returned
Compliant_derivatives(d_activation, new_muscle_vel_n) ==
    IF new_muscle_vel_n.raised THEN Raise
    ELSE concat(<< d_activation, new_muscle_vel_n.value >>)

\* CompliantTendonHillMuscle.update_ode
CompliantTendonHillMuscle_update_ode(excitation, state) ==
    LET activation == state[1]
        d_activation == _activation_ode(excitation, activation)
        muscle_len_n == div(state[2], l0_ce)
        active_force == state[6]
    IN  Compliant_derivatives(d_activation, _muscle_ode(muscle_len_n, activation, active_force))

\* Muscle.integrate : self._integrate of the instance's class
integrate(dt_, state_derivative, state, geometry) ==
    CASE variant = "ReluMuscle" ->
            ReluMuscle_integrate(dt_, state_derivative, state, geometry)
      [] variant \in RigidVariants ->
            Rigid_integrate(dt_, state_derivative, state, geometry)
      [] variant = "CompliantTendonHillMuscle" ->
            CompliantTendonHillMuscle_integrate(dt_, state_derivative, state, geometry)

\* Muscle.get_initial_muscle_state (batch_size = 1)
get_initial_muscle_state(geometry) ==
    CASE variant = "ReluMuscle" -> ReluMuscle_get_initial_muscle_state(geometry)
      [] variant \in RigidVariants -> Rigid_get_initial_muscle_state(geometry)
      [] variant = "CompliantTendonHillMuscle" ->
            CompliantTendonHillMuscle_get_initial_muscle_state(geometry)

\* update_ode of the instance's class
update_ode(excitation, state) ==
    IF variant = "CompliantTendonHillMuscle"
    THEN CompliantTendonHillMuscle_update_ode(excitation, state)
    ELSE Muscle_update_ode(excitation, state)

---------------------------------------------------------------------------
(* build: the assignments of each class's build in source order.  A line   *)
(* that raises ends the call: the attributes assigned before it keep their *)
(* new values, the others (self.built among them) their old ones.          *)

BuildOrder(v) ==
    CASE v = "ReluMuscle" ->
            << "dt", "n_muscles", "max_iso_force", "vmax", "l0_se", "l0_ce", "l0_pe", "built" >>
      [] v = "RigidTendonHillMuscle" ->
            << "dt", "n_muscles", "l0_ce", "l0_pe", "k_pe", "max_iso_force", "l0_se",
               "musculotendon_slack_len", "vmax", "built" >>
      [] v = "RigidTendonHillMuscleThelen" ->
            << "n_muscles", "dt", "max_iso_force", "l0_ce", "l0_pe", "l0_se",
               "musculotendon_slack_len", "vmax", "ce_0", "ce_1", "ce_2", "ce_3", "ce_4",
               "ce_5", "built" >>
      [] v = "CompliantTendonHillMuscle" ->
            << "n_muscles", "l0_ce", "l0_pe", "l0_se", "musculotendon_slack_len", "k_pe",
               "dt", "max_iso_force", "vmax", "built" >>

\* whether the line assigning attribute a raises, n being the new n_muscles
LineRaises(v, a, n, max_isometric_force, tendon_length, optimal_muscle_length, normalized_slack_muscle_length) ==
    IF v = "ReluMuscle" THEN FALSE
    ELSE CASE a = "l0_ce" -> ReshapeRaises(optimal_muscle_length, n)
           [] a = "l0_pe" -> \/ normalized_slack_muscle_length = None
                             \/ ~Broadcastable(n, Len(normalized_slack_muscle_length))
           [] a = "max_iso_force" -> ReshapeRaises(max_isometric_force, n)
           [] a = "l0_se" -> ReshapeRaises(tendon_length, n)
           [] OTHER -> FALSE

\* the position in BuildOrder of the first line that raises; 0 if none does,
\* and 1 if the call itself raises: max_isometric_force is a required argument
FailIndex(v, max_isometric_force, tendon_length, optimal_muscle_length, normalized_slack_muscle_length) ==
    LET n == IF v = "ReluMuscle" THEN size(max_isometric_force) ELSE size(tendon_length)
        order == BuildOrder(v)
        bad == { k \in DOMAIN order :
                    LineRaises(v, order[k], n, max_isometric_force, tendon_length,
                               optimal_muscle_length, normalized_slack_muscle_length) }
    IN  IF max_isometric_force = None THEN 1
        ELSE IF bad = {} THEN 0
        ELSE CHOOSE k \in bad : \A j \in bad : k <= j

\* whether a build that fails at position fail has assigned attribute a
Assigned(v, a, fail) ==
    \E k \in DOMAIN BuildOrder(v) : BuildOrder(v)[k] = a /\ (fail = 0 \/ k < fail)

\* Muscle.build, RigidTendonHillMuscle.build, RigidTendonHillMuscleThelen.build,
\* CompliantTendonHillMuscle.build
build(timestep, max_isometric_force, tendon_length, optimal_muscle_length, normalized_slack_muscle_length) ==
    LET v == variant
        hill == v \in HillVariants
        fail == FailIndex(v, max_isometric_force, tendon_length, optimal_muscle_length,
                          normalized_slack_muscle_length)
        Set(a) == Assigned(v, a, fail)
        new_n == IF hill THEN size(tendon_length) ELSE size(max_isometric_force)
        new_l0_ce == IF hill THEN optimal_muscle_length ELSE ones(new_n)
        new_l0_pe == IF hill THEN mul(new_l0_ce, normalized_slack_muscle_length)
                     ELSE ones(new_n)
        new_l0_se == IF hill THEN tendon_length ELSE ones(new_n)
        new_vmax == IF hill THEN mul(K(10 * SCALE), new_l0_ce) ELSE ones(new_n)
        new_k_pe == div(K(SCALE), square(sub(K(1660000), div(new_l0_pe, new_l0_ce))))
        new_ce_1 == mul(K(ce_Af), new_vmax)
        new_ce_4 == sub(mul(mul(K(ce_Af), K(ce_fmlen)), new_vmax), new_ce_1)
    IN  /\ dt' = IF Set("dt") THEN timestep ELSE dt
        /\ n_muscles' = IF Set("n_muscles") THEN new_n ELSE n_muscles
        /\ max_iso_force' = IF Set("max_iso_force") THEN max_isometric_force
                            ELSE max_iso_force
        /\ l0_ce' = IF Set("l0_ce") THEN new_l0_ce ELSE l0_ce
        /\ l0_pe' = IF Set("l0_pe") THEN new_l0_pe ELSE l0_pe
        /\ l0_se' = IF Set("l0_se") THEN new_l0_se ELSE l0_se
        /\ vmax' = IF Set("vmax") THEN new_vmax ELSE vmax
        /\ musculotendon_slack_len' =
               IF Set("musculotendon_slack_len") THEN add(new_l0_pe, new_l0_se)
               ELSE musculotendon_slack_len
        /\ k_pe' = IF Set("k_pe") THEN new_k_pe ELSE k_pe
        /\ ce_0' = IF Set("ce_0") THEN mul(K(3 * SCALE), new_vmax) ELSE ce_0
        /\ ce_1' = IF Set("ce_1") THEN new_ce_1 ELSE ce_1
        /\ ce_2' = IF Set("ce_2")
                   THEN sub(mul(mul(mul(K(3 * SCALE), K(ce_Af)), new_vmax), K(ce_fmlen)),
                            mul(mul(K(3 * SCALE), K(ce_Af)), new_vmax))
                   ELSE ce_2
        /\ ce_3' = IF Set("ce_3")
                   THEN add(mul(mul(K(8 * SCALE), K(ce_Af)), K(ce_fmlen)),
                            mul(K(8 * SCALE), K(ce_fmlen)))
                   ELSE ce_3
        /\ ce_4' = IF Set("ce_4") THEN new_ce_4 ELSE ce_4
        /\ ce_5' = IF Set("ce_5") THEN mul(K(8 * SCALE), add(K(ce_Af), K(SCALE))) ELSE ce_5
        /\ built' = IF Set("built") THEN TRUE ELSE built
        /\ returned' = None
        /\ call' = [op |-> "build", raised |-> fail # 0,
                    args |-> << timestep, max_isometric_force, tendon_length,
                                optimal_muscle_length, normalized_slack_muscle_length >>]

---------------------------------------------------------------------------
(* Inputs.                                                                 *)

MaxMuscles == 2

MaxBuild == 2

MaxIntegrate == 2

Array(F(_), n) == Tuple([i \in 1..n |-> F(i)])

Arrays(F(_)) == { Array(F, n) : n \in 1..MaxMuscles }

Uniform(c, n) == Tuple([i \in 1..n |-> c])

\* timestep: 0.01 s, 0.02 s
Timesteps == { 10000, 20000 }

\* the timestep of the first configuration
FirstTimesteps == { 10000 }

\* max_isometric_force of muscle i
ForceOf(i) == 10 * i * SCALE

\* tendon_length of muscle i: 0.2, 0.25, ...
TendonOf(i) == 200000 + 50000 * (i - 1)

\* optimal_muscle_length of muscle i: 0.1, 0.12, ...
OptimalOf(i) == 100000 + 20000 * (i - 1)

\* normalized_slack_muscle_length of muscle i: 1.4, 1.3, ...
SlackOf(i) == 1400000 - 100000 * (i - 1)

\* normalized_slack_muscle_length: a scalar or one number per muscle
SlackInputs == { K(1400000) } \cup { Array(SlackOf, n) : n \in 2..MaxMuscles }

\* (length, velocity) of every muscle.  Musculotendon lengths: negative, below
\* and at the tendon slack length 0.2, between it and the musculotendon slack
\* length 0.2 + 1.4 * 0.1, at that length and above it
GeometryPoints ==
    { << -50000, 0 >>, << 100000, -500000 >>, << 200000, 0 >>, << 250000, 500000 >>,
      << 340000, 0 >>, << 350000, 500000 >> }

\* a short run
FewGeometryPoints == { << 100000, -500000 >>, << 350000, 500000 >> }

Geometries(points, n) == { << Uniform(g[1], n), Uniform(g[2], n) >> : g \in points }

Excitations == { 0, SCALE }

\* the dt argument of integrate
DtInputs == { 0, 10000 }

\* (activation derivative, normalized fiber velocity) a caller may pass
DerivativePoints ==
    { << -200 * SCALE, -10 * SCALE >>, << 0, 0 >>, << 30 * SCALE, 10 * SCALE >>,
      << 200 * SCALE, -10 * SCALE >> }

DerivativeInputs(points, n) ==
    IF variant = "CompliantTendonHillMuscle"
    THEN { << Uniform(d[1], n), Uniform(d[2], n) >> : d \in points }
    ELSE { << Uniform(d[1], n) >> : d \in points }

\* excitations and activations within and beyond [min_activation, 1]
OdeGrid ==
    { -500000, 0, 500, 1000, 5000, 10000, 300000, 999999, SCALE, 1500000 }

---------------------------------------------------------------------------
(* The operations.                                                         *)

\* the number of channels of a muscle state of the instance's class
state_dim == IF variant = "ReluMuscle" THEN 4 ELSE 7

\* the instance is configured and its last build did not raise
Usable == built /\ ~(call.op = "build" /\ call.raised)

\* a tensor the caller shaped for the configured number of muscles
Shaped(t, channels) ==
    /\ t # None
    /\ Len(t) = channels
    /\ \A c \in DOMAIN t : Len(t[c]) = n_muscles

Build(timestep, max_isometric_force, tendon_length, optimal_muscle_length, normalized_slack_muscle_length) ==
    /\ n_build < MaxBuild
    /\ n_build' = n_build + 1
    /\ build(timestep, max_isometric_force, tendon_length, optimal_muscle_length,
             normalized_slack_muscle_length)
    /\ UNCHANGED << network, instance, caller, n_integrate >>

\* The plant computes the geometry state: the first one, and the one of the
\* next step once integrate has returned the muscle state of this step, which
\* the plant keeps.
PlantGeometryWith(points, steps) ==
    /\ Usable
    /\ \/ ~Shaped(geometry_state, 2)
       \/ call.op = "integrate" /\ ~call.raised /\ n_integrate < steps
    /\ \E g \in Geometries(points, n_muscles) : geometry_state' = g
    /\ muscle_state' = IF call.op = "integrate" THEN returned ELSE muscle_state
    /\ call' = [op |-> "geometry", raised |-> FALSE, args |-> << >>]
    /\ UNCHANGED << network, instance, config, returned, n_integrate, n_build >>

PlantGeometry == PlantGeometryWith(GeometryPoints, MaxIntegrate)

\* The caller creates its muscle state once, from the first geometry state.
GetInitialMuscleState ==
    /\ Usable
    /\ ~Shaped(muscle_state, state_dim)
    /\ Shaped(geometry_state, 2)
    /\ \E r \in { get_initial_muscle_state(geometry_state) } :
          /\ returned' = r.value
          /\ call' = [op |-> "get_initial_muscle_state", raised |-> r.raised, args |-> << >>]
    /\ UNCHANGED << network, instance, config, caller, n_integrate, n_build >>

\* what update_ode has just returned, if it has
Updated == IF call.op = "update_ode" /\ ~call.raised THEN { returned } ELSE {}

\* IntegrateWith storing the state it computes in the state it was given
IntegrateInPlace(dts, derivatives, steps) ==
    /\ Usable
    /\ n_integrate < steps
    /\ Shaped(muscle_state, state_dim)
    /\ Shaped(geometry_state, 2)
    /\ \E dt_ \in dts, d \in derivatives :
          \E r \in { integrate(dt_, d, muscle_state, geometry_state) } :
             /\ returned' = r.value
             /\ muscle_state' = IF r.raised THEN muscle_state ELSE r.value
             /\ call' = [op |-> "integrate", raised |-> r.raised, args |-> << >>]
    /\ n_integrate' = n_integrate + 1
    /\ UNCHANGED << network, instance, config, geometry_state, n_build >>

\* IntegrateWith keeping the dt it was given as the timestep of the instance
IntegrateStoringTimestep(dts, derivatives, steps) ==
    /\ Usable
    /\ n_integrate < steps
    /\ Shaped(muscle_state, state_dim)
    /\ Shaped(geometry_state, 2)
    /\ \E dt_ \in dts, d \in derivatives :
          \E r \in { integrate(dt_, d, muscle_state, geometry_state) } :
             /\ returned' = r.value
             /\ dt' = dt_
             /\ call' = [op |-> "integrate", raised |-> r.raised, args |-> << >>]
    /\ n_integrate' = n_integrate + 1
    /\ UNCHANGED << built, n_muscles, max_iso_force, vmax, l0_se, l0_ce, l0_pe,
                    musculotendon_slack_len, k_pe, ce_0, ce_1, ce_2, ce_3, ce_4, ce_5 >>
    /\ UNCHANGED << network, instance, caller, n_build >>

IntegrateWith(dts, derivatives, steps) ==
    /\ Usable
    /\ n_integrate < steps
    /\ Shaped(muscle_state, state_dim)
    /\ Shaped(geometry_state, 2)
    /\ \E dt_ \in dts, d \in derivatives :
          \E r \in { integrate(dt_, d, muscle_state, geometry_state) } :
             /\ returned' = r.value
             /\ call' = [op |-> "integrate", raised |-> r.raised, args |-> << >>]
    /\ n_integrate' = n_integrate + 1
    /\ UNCHANGED << network, instance, config, caller, n_build >>

\* integrate with a derivative the caller made up, or the one update_ode returned
Integrate ==
    IntegrateWith(DtInputs, DerivativeInputs(DerivativePoints, n_muscles) \cup Updated,
                  MaxIntegrate)

\* Muscle.activation_ode on an excitation and an activation of n_muscles
\* muscles; nothing in it raises for tensors of that shape
ActivationOdeOn(grid) ==
    /\ Usable
    /\ \E e \in grid, a \in grid :
          /\ returned' = << _activation_ode(Uniform(e, n_muscles), Uniform(a, n_muscles)) >>
          /\ call' = [op |-> "activation_ode", raised |-> FALSE,
                      args |-> << Uniform(e, n_muscles), Uniform(a, n_muscles) >>]
    /\ UNCHANGED << network, instance, config, caller, n_integrate, n_build >>

ActivationOde == ActivationOdeOn(OdeGrid)

UpdateOdeWith(excitations, steps) ==
    /\ Usable
    /\ n_integrate < steps
    /\ Shaped(muscle_state, state_dim)
    /\ \E e \in excitations :
          \E r \in { update_ode(Uniform(e, n_muscles), muscle_state) } :
             /\ returned' = r.value
             /\ call' = [op |-> "update_ode", raised |-> r.raised, args |-> << >>]
    /\ UNCHANGED << network, instance, config, caller, n_integrate, n_build >>

UpdateOde == UpdateOdeWith(Excitations, MaxIntegrate)

\* the caller keeps the state that get_initial_muscle_state or integrate
\* returned as its muscle state
Advance ==
    /\ call.op \in { "get_initial_muscle_state", "integrate" }
    /\ ~call.raised
    /\ muscle_state # returned
    /\ muscle_state' = returned
    /\ UNCHANGED << network, instance, config, geometry_state, returned, call, n_integrate, n_build >>

\* Muscle.setattr
setattr(name, value) ==
    /\ dt' = IF name = "dt" THEN value ELSE dt
    /\ max_iso_force' = IF name = "max_iso_force" THEN value ELSE max_iso_force
    /\ UNCHANGED << built, n_muscles, vmax, l0_se, l0_ce, l0_pe, musculotendon_slack_len,
                    k_pe, ce_0, ce_1, ce_2, ce_3, ce_4, ce_5 >>

Setattr ==
    /\ Usable
    /\ n_build < MaxBuild
    /\ n_build' = n_build + 1
    /\ \/ \E t \in Timesteps : setattr("dt", t)
       \/ \E f \in Arrays(ForceOf) : Len(f) = n_muscles /\ setattr("max_iso_force", f)
    /\ returned' = None
    /\ call' = [op |-> "setattr", raised |-> FALSE, args |-> << >>]
    /\ UNCHANGED << network, instance, caller, n_integrate >>

\* the state after the constructor of the muscle; no network is built on it
\* yet
Constructed(v) ==
    /\ variant = v
    /\ min_activation = DefaultMinActivation(v)
    /\ built = FALSE
    /\ dt = NoneNum
    /\ n_muscles = NoneNum
    /\ max_iso_force = None
    /\ vmax = None
    /\ l0_se = None
    /\ l0_ce = None
    /\ l0_pe = None
    /\ musculotendon_slack_len = None
    /\ k_pe = None
    /\ ce_0 = None /\ ce_1 = None /\ ce_2 = None
    /\ ce_3 = None /\ ce_4 = None /\ ce_5 = None
    /\ geometry_state = None
    /\ muscle_state = None
    /\ returned = None
    /\ call = [op |-> "__init__", raised |-> FALSE, args |-> << >>]
    /\ n_integrate = 0
    /\ n_build = 0
    /\ proprioceptive_delay = NoneNum
    /\ visual_delay = NoneNum
    /\ proprioceptive_noise_sd = NoneNum
    /\ visual_noise_sd = NoneNum
    /\ states = None
    /\ proprio_fb = None
    /\ visual_fb = None
    /\ produced = << >>
    /\ n_call = 0

Init == \E v \in Variants : Constructed(v)

\* every argument of build may be missing
Optional(S) == S \cup { None }

\* The caller configures the instance once (a build that raised may be tried
\* again), then runs the simulation.
Configure ==
    /\ ~built
    /\ \E timestep \in FirstTimesteps,
          max_isometric_force \in Optional(Arrays(ForceOf)),
          tendon_length \in Optional(Arrays(TendonOf)),
          optimal_muscle_length \in Optional(Arrays(OptimalOf)),
          normalized_slack_muscle_length \in Optional(SlackInputs) :
             Build(timestep, max_isometric_force, tendon_length, optimal_muscle_length,
                   normalized_slack_muscle_length)

Next ==
    \/ Configure
    \/ PlantGeometry
    \/ GetInitialMuscleState
    \/ UpdateOde
    \/ Integrate
    \/ Advance

Spec == Init /\ [][Next]_vars

---------------------------------------------------------------------------
(* activation_ode alone, on a configured instance of any variant.          *)

NextActivationOde ==
    \/ Configure
    \/ ActivationOde

SpecActivationOde == Init /\ [][NextActivationOde]_vars

---------------------------------------------------------------------------
(* An instance that is configured again, by build or by setattr, between   *)
(* the calls of a short simulation.                                        *)

\* a build call on an instance that is built already
Reconfigure ==
    /\ built
    /\ \E timestep \in Timesteps,
          max_isometric_force \in Optional(Arrays(ForceOf)),
          tendon_length \in { Array(TendonOf, MaxMuscles) },
          optimal_muscle_length \in { Array(OptimalOf, MaxMuscles) },
          normalized_slack_muscle_length \in Optional({ K(1400000) }) :
             Build(timestep, max_isometric_force, tendon_length, optimal_muscle_length,
                   normalized_slack_muscle_length)

RebuildGeometry == PlantGeometryWith(FewGeometryPoints, 1)

RebuildUpdateOde == UpdateOdeWith(Excitations, 1)

RebuildIntegrate ==
    IntegrateWith(DtInputs, DerivativeInputs({ << 0, 0 >> }, n_muscles) \cup Updated, 1)

RebuildActivationOde == ActivationOdeOn({ 0, SCALE })

NextRebuild ==
    \/ Configure
    \/ Reconfigure
    \/ Setattr
    \/ RebuildGeometry
    \/ GetInitialMuscleState
    \/ RebuildUpdateOde
    \/ RebuildIntegrate
    \/ RebuildActivationOde
    \/ Advance

SpecRebuild == Init /\ [][NextRebuild]_vars

---------------------------------------------------------------------------
(* ReluMuscle driven by a constant excitation of 1 with dt = 0.01: each    *)
(* step takes the derivative update_ode returns for the current state and  *)
(* integrates it.                                                          *)

ScenarioSteps == 10

ScenarioInit == Constructed("ReluMuscle")

ScenarioConfigure ==
    /\ ~built
    /\ \E max_isometric_force \in Arrays(ForceOf) :
          Build(10000, max_isometric_force, None, None, None)

ScenarioGeometry == PlantGeometryWith(GeometryPoints, ScenarioSteps)

\* the derivative of the state of this step
ScenarioUpdateOde ==
    /\ call.op = "integrate" => muscle_state = returned
    /\ UpdateOdeWith({ SCALE }, ScenarioSteps)

ScenarioIntegrate == IntegrateWith({ 10000 }, Updated, ScenarioSteps)

NextScenario ==
    \/ ScenarioConfigure
    \/ ScenarioGeometry
    \/ GetInitialMuscleState
    \/ ScenarioUpdateOde
    \/ ScenarioIntegrate
    \/ Advance

SpecScenario == ScenarioInit /\ [][NextScenario]_vars

---------------------------------------------------------------------------
(* muscle_ode of CompliantTendonHillMuscle called on its own.  In the code  *)
(* a radicand is negative while active_force >= f_x_a only for f_x_a of the *)
(* order of 1e-5 and radicands of the order of 1e-10, which these numbers   *)
(* do not resolve: the second action gives the part of muscle_ode that      *)
(* follows the radicand a radicand of either sign.                         *)

\* (norm_muscle_len, activation, active_force) of one muscle; a negative
\* activation with a negative active force makes the radicand negative
MuscleOdePoints ==
    { << SCALE, SCALE, 0 >>, << SCALE, SCALE, SCALE >>, << SCALE, 500000, 2 * SCALE >>,
      << 1200000, 500000, 300000 >>, << SCALE, -1 * SCALE, -1520000 >> }

\* the inputs of muscle_ode for one and for two muscles
MuscleOdeInputs ==
    { << K(p[1]), K(p[2]), K(p[3]) >> : p \in MuscleOdePoints }
    \cup { << << p[1], q[1] >>, << p[2], q[2] >>, << p[3], q[3] >> >> :
               p \in MuscleOdePoints, q \in MuscleOdePoints }

\* radicands of either sign
Radicands(n) ==
    IF n = 1 THEN { K(r) : r \in { -500000, 0, 250000 } }
    ELSE { << r1, r2 >> : r1 \in { -500000, 0, 250000 }, r2 \in { -500000, 250000 } }

\* muscle_ode has worked on the locals e and is returning r
MuscleOdeReturns(x, e, r) ==
    /\ returned' = r.value
    /\ call' = [op |-> "muscle_ode", raised |-> r.raised,
                args |-> << x[1], x[2], x[3], e.sqrt_term, e.f_x_a >>]
    /\ UNCHANGED << network, instance, config, caller, n_integrate, n_build >>

\* CompliantTendonHillMuscle.muscle_ode
MuscleOde ==
    \E x \in MuscleOdeInputs :
       \E e \in { muscle_ode_to_radicand(x[1], x[2], x[3]) } :
          \E r \in { muscle_ode_from_radicand(e) } : MuscleOdeReturns(x, e, r)

\* CompliantTendonHillMuscle.muscle_ode from the radicand on
MuscleOdeOnRadicand ==
    \E x \in MuscleOdeInputs :
       \E e0 \in { muscle_ode_to_radicand(x[1], x[2], x[3]) } :
          \E e \in { [sqrt_term |-> s] @@ e0 : s \in Radicands(Len(x[1])) } :
             \E r \in { muscle_ode_from_radicand(e) } : MuscleOdeReturns(x, e, r)

NextMuscleOde == MuscleOde \/ MuscleOdeOnRadicand

SpecMuscleOde == Constructed("CompliantTendonHillMuscle") /\ [][NextMuscleOde]_vars

---------------------------------------------------------------------------
(* get_initial_muscle_state of CompliantTendonHillMuscle alone, on         *)
(* musculotendon lengths around the bounds of its regimes.                 *)

\* musculotendon lengths of muscle i: negative, zero, below and at the tendon
\* slack length, between it and the musculotendon slack length, just below
\* that length, at it and just above it
InitialLengthsOf(i) ==
    { -50000, 0, At(l0_se, i) - 100000, At(l0_se, i), At(l0_se, i) + 50000,
      At(l0_se, i) + At(l0_pe, i) - 10000, At(l0_se, i) + At(l0_pe, i),
      At(l0_se, i) + At(l0_pe, i) + 10000 }

\* geometry states at rest, the length of each muscle chosen on its own
InitialGeometries ==
    { << Tuple(f), Uniform(0, n_muscles) >> :
          f \in { g \in [1..n_muscles -> UNION { InitialLengthsOf(i) : i \in 1..n_muscles }] :
                      \A i \in 1..n_muscles : g[i] \in InitialLengthsOf(i) } }

InitialGeometry ==
    /\ Usable
    /\ ~Shaped(geometry_state, 2)
    /\ \E g \in InitialGeometries : geometry_state' = g
    /\ call' = [op |-> "geometry", raised |-> FALSE, args |-> << >>]
    /\ UNCHANGED << network, instance, config, muscle_state, returned, n_integrate, n_build >>

NextInitial ==
    \/ Configure
    \/ InitialGeometry
    \/ GetInitialMuscleState

SpecInitial == Constructed("CompliantTendonHillMuscle") /\ [][NextInitial]_vars

---------------------------------------------------------------------------
(* RigidTendonHillMuscle held at and around its optimal length.            *)

\* musculotendon lengths of muscle i: the one that puts the muscle at its
\* optimal length l0_ce, and lengths 0.02 below and above it
IsometricLengthsOf(i) ==
    { At(l0_se, i) + At(l0_ce, i) - 20000, At(l0_se, i) + At(l0_ce, i),
      At(l0_se, i) + At(l0_ce, i) + 20000 }

\* geometry states, the length of each muscle chosen on its own, at rest or
\* lengthening at 0.1
IsometricGeometries ==
    { << Tuple(f), Uniform(v, n_muscles) >> :
          f \in { g \in [1..n_muscles -> UNION { IsometricLengthsOf(i) : i \in 1..n_muscles }] :
                      \A i \in 1..n_muscles : g[i] \in IsometricLengthsOf(i) },
          v \in { 0, 100000 } }

IsometricGeometry ==
    /\ Usable
    /\ ~Shaped(geometry_state, 2)
    /\ Len(l0_pe) = n_muscles
    /\ \E g \in IsometricGeometries : geometry_state' = g
    /\ call' = [op |-> "geometry", raised |-> FALSE, args |-> << >>]
    /\ UNCHANGED << network, instance, config, muscle_state, returned, n_integrate, n_build >>

IsometricIntegrate ==
    IntegrateWith({ 10000 }, DerivativeInputs(DerivativePoints, n_muscles), 1)

NextIsometric ==
    \/ Configure
    \/ IsometricGeometry
    \/ GetInitialMuscleState
    \/ Advance
    \/ IsometricIntegrate

SpecIsometric == Constructed("RigidTendonHillMuscle") /\ [][NextIsometric]_vars

---------------------------------------------------------------------------
(* GRUNetwork: the delay buffers of the proprioceptive and the visual      *)
(* feedback.  The plant and the recurrent layers are outside the network's *)
(* own code: the plant states are whatever the plant returns, and the      *)
(* hidden states, which the buffers do not depend on, are left out.  A     *)
(* buffer of shape (batch, n, delay) is the sequence of its delay columns. *)

MaxDelay == 2

MaxCalls == 4

\* plant.proprioceptive_delay, plant.visual_delay
Delays == 0..MaxDelay

\* (proprioceptive_noise_sd, visual_noise_sd)
NoiseLevels == { << 0, 0 >>, << 1000, 0 >>, << 0, 1000 >> }

\* the values tf.random.normal may add to a feedback, for a deviation sd
Noise(sd) == IF sd = 0 THEN { 0 } ELSE { -sd, sd }

\* two states <<jstate, cstate, mstate, gstate>> of the plant: the muscles at
\* their optimal length and at rest, and 0.02 longer, lengthening at 0.5;
\* cstate is the cartesian position followed by the cartesian velocity
PlantStates ==
    { << << 500000, 0 >>,
         << 300000, 400000, 0, 0 >>,
         << Uniform(min_activation, n_muscles), Array(OptimalOf, n_muscles),
            Uniform(0, n_muscles), Uniform(0, n_muscles), Uniform(SCALE, n_muscles),
            Uniform(0, n_muscles), Uniform(0, n_muscles) >>,
         << Tuple([i \in 1..n_muscles |-> TendonOf(i) + OptimalOf(i)]),
            Uniform(0, n_muscles) >> >>,
      << << 600000, 100000 >>,
         << 350000, 450000, 100000, -100000 >>,
         << Uniform(min_activation, n_muscles),
            Tuple([i \in 1..n_muscles |-> OptimalOf(i) + 20000]),
            Uniform(500000, n_muscles), Uniform(0, n_muscles), Uniform(SCALE, n_muscles),
            Uniform(0, n_muscles), Uniform(0, n_muscles) >>,
         << Tuple([i \in 1..n_muscles |-> TendonOf(i) + OptimalOf(i) + 20000]),
            Uniform(500000, n_muscles) >> >> }

\* GRUNetwork.__init__ : get_new_proprio_feedback
get_new_proprio_feedback(mstate) ==
    LET muscle_len == div(mstate[2], l0_ce)
        muscle_vel == div(mstate[3], vmax)
    IN  muscle_len \o muscle_vel

\* GRUNetwork.__init__ : get_new_visual_feedback ; position only
get_new_visual_feedback(cstate) == SubSeq(cstate, 1, Len(cstate) \div 2)

\* self.unpack_feedback_states
unpack_feedback_states(x) == SubSeq(x, 5, 6)

\* tf.slice raises on a buffer with no column
SliceRaises(x) == Len(x) = 0

\* self.get_feedback_backlog : the columns from index 1 on
get_feedback_backlog(x) == Tail(x)

\* get_feedback_current taking the newest column of the buffer
get_feedback_current_newest(x) == x[Len(x)]

\* self.get_feedback_current : the column at index 0
get_feedback_current(x) == Head(x)

\* self.lambda_cat2 on a buffer and one new column
lambda_cat2(backlog, column) == Append(backlog, column)

\* self.add_noise, for the value drawn
add_noise(x, noise) == Tuple([i \in DOMAIN x |-> x[i] + noise])

\* self.tile_feedback
tile_feedback(x, n) == Tuple([k \in 1..n |-> x])

\* GRUNetwork.get_initial_state, for the states the plant returns and the
\* noise drawn for every column of the two buffers
GRUNetwork_get_initial_state(plant_states, proprio_noise, visual_noise) ==
    LET proprio_true == get_new_proprio_feedback(plant_states[3])
        visual_true == get_new_visual_feedback(plant_states[2])
        proprio_tiled == tile_feedback(proprio_true, proprioceptive_delay)
        visual_tiled == tile_feedback(visual_true, visual_delay)
        proprio_noisy == Tuple([k \in DOMAIN proprio_tiled |->
                                    add_noise(proprio_tiled[k], proprio_noise[k])])
        visual_noisy == Tuple([k \in DOMAIN visual_tiled |->
                                   add_noise(visual_tiled[k], visual_noise[k])])
    IN  [states |-> plant_states \o << proprio_noisy, visual_noisy >>,
         true |-> << proprio_true, visual_true >>]

\* GRUNetwork.call, for the states the plant returns after the last ministep
\* and the noise drawn for the two new columns
GRUNetwork_call(states_, plant_states, proprio_noise, visual_noise) ==
    LET old == unpack_feedback_states(states_)
        proprio_backlog == get_feedback_backlog(old[1])
        visual_backlog == get_feedback_backlog(old[2])
        proprio_true == get_new_proprio_feedback(plant_states[3])
        visual_true == get_new_visual_feedback(plant_states[2])
        proprio_noisy == add_noise(proprio_true, proprio_noise)
        visual_noisy == add_noise(visual_true, visual_noise)
        new_proprio_feedback == lambda_cat2(proprio_backlog, proprio_noisy)
        new_visual_feedback == lambda_cat2(visual_backlog, visual_noisy)
    IN  [proprio_fb |-> get_feedback_current(old[1]),
         visual_fb |-> get_feedback_current(old[2]),
         new_states |-> plant_states \o << new_proprio_feedback, new_visual_feedback >>,
         true |-> << proprio_true, visual_true >>]

\* The network is constructed on a plant whose muscle is built.
NetworkInit ==
    /\ Usable
    /\ Len(l0_ce) = n_muscles
    /\ proprioceptive_delay = NoneNum
    /\ \E pd \in Delays, vd \in Delays, sd \in NoiseLevels :
          /\ proprioceptive_delay' = pd
          /\ visual_delay' = vd
          /\ proprioceptive_noise_sd' = sd[1]
          /\ visual_noise_sd' = sd[2]
    /\ call' = [op |-> "GRUNetwork.__init__", raised |-> FALSE, args |-> << >>]
    /\ UNCHANGED << states, proprio_fb, visual_fb, produced, n_call >>
    /\ UNCHANGED << instance, config, caller, returned, n_integrate, n_build >>

NetworkGetInitialState ==
    /\ proprioceptive_delay # NoneNum
    /\ states = None
    /\ \E p \in PlantStates,
          pn \in [1..proprioceptive_delay -> Noise(proprioceptive_noise_sd)],
          vn \in [1..visual_delay -> Noise(visual_noise_sd)] :
          \E r \in { GRUNetwork_get_initial_state(p, pn, vn) } :
             /\ states' = r.states
             /\ produced' = << r.true >>
    /\ call' = [op |-> "GRUNetwork.get_initial_state", raised |-> FALSE, args |-> << >>]
    /\ UNCHANGED << proprioceptive_delay, visual_delay, proprioceptive_noise_sd,
                    visual_noise_sd, proprio_fb, visual_fb, n_call >>
    /\ UNCHANGED << instance, config, caller, returned, n_integrate, n_build >>

\* One call of the network on the states its caller holds; the caller keeps
\* the new states.  The slices of a buffer without columns raise.
NetworkCall ==
    /\ states # None
    /\ n_call < MaxCalls
    /\ IF SliceRaises(states[5]) \/ SliceRaises(states[6])
       THEN /\ call' = [op |-> "GRUNetwork.call", raised |-> TRUE, args |-> << >>]
            /\ UNCHANGED << states, proprio_fb, visual_fb, produced, n_call >>
       ELSE /\ \E p \in PlantStates, pn \in Noise(proprioceptive_noise_sd),
                  vn \in Noise(visual_noise_sd) :
                  \E r \in { GRUNetwork_call(states, p, pn, vn) } :
                     /\ states' = r.new_states
                     /\ proprio_fb' = r.proprio_fb
                     /\ visual_fb' = r.visual_fb
                     /\ produced' = Append(produced, r.true)
            /\ n_call' = n_call + 1
            /\ call' = [op |-> "GRUNetwork.call", raised |-> FALSE, args |-> << >>]
    /\ UNCHANGED << proprioceptive_delay, visual_delay, proprioceptive_noise_sd,
                    visual_noise_sd >>
    /\ UNCHANGED << instance, config, caller, returned, n_integrate, n_build >>

\* the muscle of the plant is built with one or two muscles
NetworkConfigure ==
    /\ ~built
    /\ \E n \in 1..MaxMuscles :
          Build(10000, Array(ForceOf, n), Array(TendonOf, n), Array(OptimalOf, n),
                K(1400000))

NextNetwork ==
    \/ NetworkConfigure
    \/ NetworkInit
    \/ NetworkGetInitialState
    \/ NetworkCall

SpecNetwork == Constructed("RigidTendonHillMuscle") /\ [][NextNetwork]_vars

---------------------------------------------------------------------------
(* Properties of the states that get_initial_muscle_state and integrate    *)
(* return.                                                                 *)

\* get_initial_muscle_state or integrate has just returned a muscle state
StateReturned ==
    /\ call.op \in { "get_initial_muscle_state", "integrate" }
    /\ ~call.raised

\* the muscles of the state returned
Muscles == DOMAIN returned[1]

\* C1: for every variant, the activation (channel 0 of the state) returned by
\* get_initial_muscle_state and by every integrate call, whatever dt >= 0 and
\* activation derivative it was given, lies in [min_activation, 1].
C1_ActivationWithinBounds ==
    StateReturned =>
        \A i \in Muscles : min_activation <= returned[1][i] /\ returned[1][i] <= SCALE

\* an integrate call that clipped the activation from 1 down to min_activation
C1_Witness ==
    /\ call.op = "integrate" /\ ~call.raised
    /\ n_integrate >= 2
    /\ \E i \in Muscles : muscle_state[1][i] = SCALE /\ returned[1][i] = min_activation

\* C2: every state returned has non-negative forces: the passive component
\* flpe, the active (force-velocity) component and the total force; flpe of
\* RigidTendonHillMuscle, and flpe and flse of CompliantTendonHillMuscle, are
\* at most 3.
C2_ForcesNonNegative ==
    StateReturned =>
        \A i \in Muscles :
            IF variant = "ReluMuscle" THEN returned[4][i] >= 0
            ELSE /\ returned[4][i] >= 0
                 /\ returned[6][i] >= 0
                 /\ returned[7][i] >= 0
                 /\ variant = "RigidTendonHillMuscle" => returned[4][i] <= 3 * SCALE
                 /\ variant = "CompliantTendonHillMuscle" =>
                        /\ returned[4][i] <= 3 * SCALE
                        /\ returned[5][i] >= 0
                        /\ returned[5][i] <= 3 * SCALE

\* integrate returned a Hill state whose passive, active and total forces are
\* all positive
C2_Witness ==
    /\ call.op = "integrate" /\ ~call.raised
    /\ variant \in HillVariants
    /\ \E i \in Muscles : returned[4][i] > 0 /\ returned[6][i] > 0 /\ returned[7][i] > 0

\* the least muscle length the rigid-tendon variants store
RigidFloor == IF variant = "RigidTendonHillMuscle" THEN 0 ELSE SCALE \div 1000

\* C4 (as the code has it): for the rigid-tendon variants the muscle length
\* stored in the state returned is the musculotendon length of the geometry
\* state minus the tendon slack length, but never less than the floor (0 for
\* RigidTendonHillMuscle, 0.001 for RigidTendonHillMuscleThelen): muscle
\* length + tendon slack length = musculotendon length holds exactly when
\* the musculotendon length is at least tendon slack length + floor.
C4_MuscleLengthIsLengthBeyondSlack ==
    StateReturned /\ variant \in RigidVariants =>
        \A i \in Muscles :
            /\ returned[2][i] = Max(geometry_state[1][i] - l0_se[i], RigidFloor)
            /\ geometry_state[1][i] - l0_se[i] >= RigidFloor
                   <=> returned[2][i] + l0_se[i] = geometry_state[1][i]

\* integrate returned, for a rigid-tendon variant, a state of one muscle
\* stretched beyond its tendon slack length and one held at the floor
C4_Witness ==
    /\ call.op = "integrate" /\ ~call.raised
    /\ variant \in RigidVariants
    /\ \E i \in Muscles : /\ returned[2][i] > RigidFloor
                          /\ returned[2][i] + l0_se[i] = geometry_state[1][i]
    /\ \E i \in Muscles : /\ returned[2][i] = RigidFloor
                          /\ returned[2][i] + l0_se[i] # geometry_state[1][i]

\* C4 (as the specification states it): muscle length + tendon slack length
\* = musculotendon length in every state the rigid-tendon variants return.
C4_AsStated ==
    StateReturned /\ variant \in RigidVariants =>
        \A i \in Muscles : returned[2][i] + l0_se[i] = geometry_state[1][i]

\* C5 (as the specification states it, its first half): with a musculotendon
\* length >= 0, the muscle length stored in every state returned is >= 0.
\* (The claim's second half, a floor of 0.001 * l0_ce for
\* CompliantTendonHillMuscle, is stronger.)
C5_MuscleLengthNonNegative ==
    StateReturned /\ (\A i \in Muscles : geometry_state[1][i] >= 0) =>
        \A i \in Muscles : returned[2][i] >= 0

\* the arguments of the build call just made do not fit together: a required
\* one is missing, or the arrays of a Hill variant differ in size (a slack
\* length of size 1 is a scalar, which fits every size)
BadArguments ==
    LET max_isometric_force == call.args[2]
        tendon_length == call.args[3]
        optimal_muscle_length == call.args[4]
        normalized_slack_muscle_length == call.args[5]
    IN  \/ max_isometric_force = None
        \/ /\ variant \in HillVariants
           /\ \/ tendon_length = None
              \/ optimal_muscle_length = None
              \/ normalized_slack_muscle_length = None
              \/ Len(max_isometric_force) # Len(tendon_length)
              \/ Len(optimal_muscle_length) # Len(tendon_length)
              \/ /\ Len(normalized_slack_muscle_length) # Len(tendon_length)
                 /\ Len(normalized_slack_muscle_length) # 1

\* C6 (as the specification states it): a build call whose arguments do not
\* fit together raises and leaves built false.
C6_BadBuildRaises ==
    call.op = "build" /\ BadArguments => call.raised /\ ~built

\* C8: integrate leaves the muscle state and the geometry state it was given,
\* and the configuration of the instance, unchanged: the state it computes is
\* returned, not stored.
C8_IntegrateIsPure ==
    [][n_integrate' # n_integrate =>
          UNCHANGED << config, instance, muscle_state, geometry_state >>]_vars

\* the second integrate call returned a state other than the one it was given
C8_Witness ==
    /\ call.op = "integrate" /\ ~call.raised
    /\ n_integrate >= 2
    /\ Shaped(muscle_state, state_dim)
    /\ returned # muscle_state

\* get_initial_muscle_state of CompliantTendonHillMuscle has just returned
CompliantInitialised ==
    /\ variant = "CompliantTendonHillMuscle"
    /\ call.op = "get_initial_muscle_state"
    /\ ~call.raised

\* C9 (as the code has it): for CompliantTendonHillMuscle the initial muscle
\* length is the floor 0.001 * l0_ce for a musculotendon length in
\* [0, l0_se), and at musculotendon length = l0_se exactly it is
\* musculotendon length - l0_se = 0: the comparison with l0_se is strict.
C9_InitialLengthAtTendonSlack ==
    CompliantInitialised =>
        \A i \in Muscles :
            /\ geometry_state[1][i] < l0_se[i] => returned[2][i] = Mul(1000, l0_ce[i])
            /\ geometry_state[1][i] = l0_se[i] => returned[2][i] = 0

\* an initial state of a muscle whose musculotendon length is its tendon
\* slack length
C9_Witness ==
    /\ CompliantInitialised
    /\ \E i \in Muscles : geometry_state[1][i] = l0_se[i] /\ returned[2][i] = 0

\* C9 (as the specification states it): at musculotendon length = l0_se the
\* initial muscle length is the floor 0.001 * l0_ce.
C9_AsStated ==
    CompliantInitialised =>
        \A i \in Muscles :
            geometry_state[1][i] = l0_se[i] => returned[2][i] = Mul(1000, l0_ce[i])

---------------------------------------------------------------------------
(* Properties of activation_ode.                                           *)

\* activation_ode has just returned, for an excitation and an activation
\* both within [min_activation, 1]
OdeWithinBounds ==
    /\ call.op = "activation_ode" /\ ~call.raised
    /\ min_activation <= call.args[1][1] /\ call.args[1][1] <= SCALE
    /\ min_activation <= call.args[2][1] /\ call.args[2][1] <= SCALE

\* C3: for every excitation and activation in [min_activation, 1], the
\* derivative activation_ode returns is > 0 if and only if excitation >
\* activation (so it is <= 0 exactly when excitation <= activation).
C3_DerivativeSignFollowsExcitation ==
    OdeWithinBounds =>
        (returned[1][1] > 0 <=> call.args[1][1] > call.args[2][1])

\* activation_ode returned a positive derivative for an excitation just above
\* the activation, both within the bounds
C3_Witness ==
    /\ OdeWithinBounds
    /\ call.args[1][1] - call.args[2][1] \in 1..5000
    /\ returned[1][1] > 0

---------------------------------------------------------------------------
(* Properties of the configuration.                                        *)

---------------------------------------------------------------------------
(* Properties of the constant-excitation run of ReluMuscle.                *)

\* an integrate call of the run that returns: muscle_state is the state it is
\* given, returned' the state it returns
ScenarioStep == n_integrate' = n_integrate + 1 /\ ~call'.raised

\* C10 (as the code has it): with excitation 1 and dt = 0.01 every integrate
\* call of the run returns an activation of exactly 1, never less than the
\* activation it was given: the first step takes the activation from 0 to 1
\* (0 + 0.01 * 1 / (0.015 * 0.5) = 1.33, clipped to 1), the later steps
\* keep it at 1.  The activation is non-decreasing and <= 1, and strictly
\* increasing in the first step only.
C10_ActivationSaturatesAtOnce ==
    [][ScenarioStep =>
          \A i \in DOMAIN muscle_state[1] :
              /\ returned'[1][i] = SCALE
              /\ returned'[1][i] >= muscle_state[1][i]
              /\ returned'[1][i] > muscle_state[1][i] <=> n_integrate = 0]_vars

\* the last integrate call of the run was given an activation of 1 and
\* returned an activation of 1
C10_Witness ==
    /\ call.op = "integrate" /\ ~call.raised
    /\ n_integrate = 10
    /\ \A i \in Muscles : muscle_state[1][i] = SCALE /\ returned[1][i] = SCALE

\* C10 (as the specification states it): every integrate call of the run
\* returns an activation greater than the one it was given, and <= 1.
C10_AsStated ==
    [][ScenarioStep =>
          \A i \in DOMAIN muscle_state[1] :
              returned'[1][i] > muscle_state[1][i] /\ returned'[1][i] <= SCALE]_vars

---------------------------------------------------------------------------
(* Properties of muscle_ode.                                               *)

\* muscle_ode has just been called; Elements are the muscles of its inputs
MuscleOdeCalled == call.op = "muscle_ode"

Elements == DOMAIN call.args[4]

\* element i has a negative radicand while active_force >= f_x_a
NegativeRootSelected(i) ==
    call.args[4][i] < 0 /\ At(call.args[3], i) >= At(call.args[5], i)

\* C11: muscle_ode raises, and returns no velocity, exactly when for some
\* element the radicand is negative while active_force >= f_x_a; a negative
\* radicand is clamped to 0 silently only for elements with active_force <
\* f_x_a, where the branch with the square root is not the one selected.
C11_NegativeSelectedRootRaises ==
    MuscleOdeCalled =>
        /\ call.raised <=> \E i \in Elements : NegativeRootSelected(i)
        /\ call.raised => returned = None
        /\ ~call.raised =>
               /\ Len(returned) = Cardinality(Elements)
               /\ \A i \in Elements :
                      call.args[4][i] < 0 => At(call.args[3], i) < At(call.args[5], i)

\* muscle_ode raised on two muscles of which one has a negative radicand with
\* active_force >= f_x_a and the other a radicand >= 0
C11_Witness ==
    /\ MuscleOdeCalled /\ call.raised
    /\ \E i \in Elements : NegativeRootSelected(i)
    /\ \E i \in Elements : call.args[4][i] >= 0


---------------------------------------------------------------------------
(* Properties of get_initial_muscle_state of CompliantTendonHillMuscle.    *)

\* get_initial_muscle_state of CompliantTendonHillMuscle has just been
\* called
CompliantInitialCalled ==
    variant = "CompliantTendonHillMuscle" /\ call.op = "get_initial_muscle_state"

\* regime r of the initial muscle length applies to a musculotendon length
\* lmt of muscle i
RegimeApplies(r, lmt, i) ==
    CASE r = 1 -> lmt < 0
      [] r = 2 -> 0 <= lmt /\ lmt < At(l0_se, i)
      [] r = 3 -> At(l0_se, i) <= lmt /\ lmt < At(l0_se, i) + At(l0_pe, i)
      [] r = 4 -> At(l0_se, i) + At(l0_pe, i) <= lmt

\* the muscle length len is the one regime r gives muscle i at musculotendon
\* length lmt; in regime 4, where the passive forces of tendon and muscle
\* balance, it lies between the muscle slack length and the length beyond
\* the tendon slack length
RegimeLength(r, lmt, i, len) ==
    CASE r = 1 -> len < 0
      [] r = 2 -> len = Mul(1000, At(l0_ce, i))
      [] r = 3 -> len = lmt - At(l0_se, i)
      [] r = 4 -> At(l0_pe, i) <= len /\ len <= lmt - At(l0_se, i)

\* C12: get_initial_muscle_state of CompliantTendonHillMuscle raises, and
\* returns no state, whenever the musculotendon length of some muscle is
\* negative; a state it returns has no negative muscle length, and for each
\* muscle exactly one of the four regimes applies, the muscle length
\* returned being the one that regime gives.
C12_InitialStateRaisesOnNegativeLength ==
    CompliantInitialCalled =>
        /\ (\E i \in DOMAIN geometry_state[1] : geometry_state[1][i] < 0)
               => call.raised /\ returned = None
        /\ ~call.raised =>
               \A i \in DOMAIN returned[2] :
                   /\ returned[2][i] >= 0
                   /\ \E r \in 1..4 :
                          /\ RegimeApplies(r, At(geometry_state[1], i), i)
                          /\ \A q \in 1..4 \ { r } :
                                 ~RegimeApplies(q, At(geometry_state[1], i), i)
                          /\ RegimeLength(r, At(geometry_state[1], i), i, returned[2][i])

\* the call raised for two muscles of which one only has a negative
\* musculotendon length
C12_Witness ==
    /\ CompliantInitialCalled /\ call.raised /\ returned = None
    /\ Shaped(geometry_state, 2)
    /\ \E i \in DOMAIN geometry_state[1] : geometry_state[1][i] < 0
    /\ \E i \in DOMAIN geometry_state[1] :
           RegimeApplies(4, geometry_state[1][i], i)

\* C13: at the bound between regimes 3 and 4, musculotendon length = l0_se +
\* l0_pe, the equilibrium length of regime 4 is the length regime 3 gives
\* just below the bound, musculotendon length - l0_se = l0_pe, and the
\* passive forces flpe and flse and the total force are all zero.
C13_RegimesMeetAtSlackLength ==
    CompliantInitialised =>
        \A i \in DOMAIN returned[2] :
            At(geometry_state[1], i) = At(l0_se, i) + At(l0_pe, i) =>
                /\ returned[2][i] = At(geometry_state[1], i) - At(l0_se, i)
                /\ returned[2][i] = At(l0_pe, i)
                /\ returned[4][i] = 0
                /\ returned[5][i] = 0
                /\ returned[7][i] = 0

\* an initial state of two muscles, one at the bound between regimes 3 and
\* 4 and one just above it, in regime 4, with a positive tendon force
C13_Witness ==
    /\ CompliantInitialised
    /\ \E i \in DOMAIN returned[2] :
           /\ geometry_state[1][i] = At(l0_se, i) + At(l0_pe, i)
           /\ returned[2][i] = At(l0_pe, i)
    /\ \E i \in DOMAIN returned[2] :
           /\ geometry_state[1][i] > At(l0_se, i) + At(l0_pe, i)
           /\ returned[5][i] > 0

---------------------------------------------------------------------------
(* Properties of RigidTendonHillMuscle at its optimal length.              *)

\* the difference allowed between two numbers that are equal but for the
\* rounding of the arithmetic: 0.00001
Tolerance == SCALE \div 100000

\* integrate of RigidTendonHillMuscle has just returned a state in which
\* muscle i is at its optimal length, at rest and fully activated
IsometricAt(i) ==
    /\ variant = "RigidTendonHillMuscle"
    /\ call.op = "integrate" /\ ~call.raised
    /\ geometry_state[1][i] = l0_se[i] + l0_ce[i]
    /\ geometry_state[2][i] = 0
    /\ returned[1][i] = SCALE

\* C14: a muscle of RigidTendonHillMuscle at normalized length 1 (musculotendon
\* length = l0_se + l0_ce), at velocity 0 and with activation 1 after the
\* step, has flce = 1 and an active force of flce * activation = 1: at
\* velocity 0 the quotient (-p1 * p3 + p2) / p1 is flce * activation.
C14_IsometricForceAtOptimalLength ==
    \A i \in 1..MaxMuscles :
        i <= n_muscles /\ StateReturned /\ IsometricAt(i) =>
            /\ returned[5][i] = SCALE
            /\ Abs(returned[6][i] - Mul(returned[5][i], returned[1][i])) <= Tolerance
            /\ Abs(returned[6][i] - SCALE) <= Tolerance

\* integrate took the activation of a muscle at its optimal length and at
\* rest from below 1 to 1, and returned an active force of 1
C14_Witness ==
    /\ StateReturned
    /\ \E i \in 1..n_muscles :
           /\ IsometricAt(i)
           /\ muscle_state[1][i] < SCALE
           /\ Abs(returned[6][i] - SCALE) <= Tolerance

---------------------------------------------------------------------------
(* Properties of ReluMuscle.                                               *)

\* an integrate call of ReluMuscle that returns: muscle_state and
\* geometry_state are the states it is given, returned' the state it returns
ReluIntegrateStep ==
    /\ variant = "ReluMuscle"
    /\ n_integrate' = n_integrate + 1
    /\ ~call'.raised

\* the activation derivatives integrate may have been given in this step:
\* one the caller made up, or the one update_ode has just returned
ReluDerivatives ==
    { d[1] : d \in DerivativeInputs(DerivativePoints, n_muscles) \cup Updated }

\* the initial state of ReluMuscle: activation min_activation, length and
\* velocity those of the geometry state, force 0
ReluInitialState ==
    variant = "ReluMuscle" /\ call.op = "get_initial_muscle_state" /\ ~call.raised =>
        /\ returned[2] = geometry_state[1]
        /\ returned[3] = geometry_state[2]
        /\ \A i \in Muscles : returned[1][i] = min_activation /\ returned[4][i] = 0

\* the state an integrate step of ReluMuscle returns: length and velocity
\* those of the geometry state, the activation the Euler step clipped to
\* [min_activation, 1], and the force max(activation, 0) * max_iso_force of
\* that activation
ReluIntegratedState ==
    ReluIntegrateStep =>
        /\ returned'[2] = geometry_state[1]
        /\ returned'[3] = geometry_state[2]
        /\ \E dt_ \in DtInputs, d \in ReluDerivatives :
               \A i \in DOMAIN muscle_state[1] :
                   returned'[1][i] =
                       Max(Min(muscle_state[1][i] + Mul(d[i], dt_), SCALE), min_activation)
        /\ \A i \in DOMAIN muscle_state[1] :
               returned'[4][i] = Mul(Max(returned'[1][i], 0), max_iso_force[i])

\* C15: the initial state of ReluMuscle has activation min_activation, force
\* 0 and the length and velocity of the geometry state; every integrate call
\* returns the length and velocity of the geometry state it is given, the
\* activation after the Euler step clipped to [min_activation, 1], and the
\* force max(activation, 0) * max_iso_force of that clipped activation.
C15_ReluMuscleStates ==
    [](ReluInitialState) /\ [][ReluIntegratedState]_vars

\* integrate of ReluMuscle returned, for a moving muscle, an activation
\* strictly between the bounds and the force that goes with it
C15_Witness ==
    /\ variant = "ReluMuscle"
    /\ call.op = "integrate" /\ ~call.raised
    /\ \E i \in Muscles :
           /\ returned[1][i] > min_activation /\ returned[1][i] < SCALE
           /\ returned[3][i] # 0
           /\ returned[4][i] = Mul(returned[1][i], max_iso_force[i])
           /\ returned[4][i] > 0

---------------------------------------------------------------------------
(* Properties of activation_ode beyond the bounds.                         *)

\* x clamped to [min_activation, 1]
Clamped(x) == Max(Min(x, SCALE), min_activation)

\* the derivative of an activation a under an excitation e, both within the
\* bounds: (e - a) / tau, with tau = tau_activation * (0.5 + 1.5 * a) where
\* e > a, and tau_deactivation / (0.5 + 1.5 * a) elsewhere
DerivativeWithinBounds(e, a) ==
    IF e > a
    THEN Div(e - a, Mul(tau_activation, SCALE \div 2 + Mul(3 * (SCALE \div 2), a)))
    ELSE Div(e - a, Div(tau_deactivation, SCALE \div 2 + Mul(3 * (SCALE \div 2), a)))

\* C16: activation_ode does not raise for an excitation or an activation
\* outside [min_activation, 1]; the derivative it returns is the one of the
\* excitation and the activation clamped to [min_activation, 1].
C16_OutOfRangeInputsAreClamped ==
    call.op = "activation_ode" =>
        /\ ~call.raised
        /\ Len(returned[1]) = n_muscles
        /\ \A i \in DOMAIN returned[1] :
               returned[1][i] =
                   DerivativeWithinBounds(Clamped(call.args[1][i]), Clamped(call.args[2][i]))

\* activation_ode returned, for an excitation above 1 and an activation
\* below min_activation, the derivative of excitation 1 at min_activation
C16_Witness ==
    /\ call.op = "activation_ode" /\ ~call.raised
    /\ \E i \in DOMAIN returned[1] :
           /\ call.args[1][i] > SCALE
           /\ call.args[2][i] < min_activation
           /\ returned[1][i] = DerivativeWithinBounds(SCALE, min_activation)
           /\ returned[1][i] > 0

---------------------------------------------------------------------------
(* Properties of integrate of CompliantTendonHillMuscle.                   *)

\* an integrate call of CompliantTendonHillMuscle that returns: muscle_state
\* and geometry_state are the states it is given, returned' the state it
\* returns
CompliantIntegrateStep ==
    /\ variant = "CompliantTendonHillMuscle"
    /\ n_integrate' = n_integrate + 1
    /\ ~call'.raised

\* the state derivatives integrate may have been given in this step
CompliantDerivatives == DerivativeInputs(DerivativePoints, n_muscles) \cup Updated

\* the normalized tendon force of muscle i, from the muscle length of the
\* state given and the musculotendon length of the geometry state given
TendonForce(i) ==
    LET tendon_len == At(geometry_state[1], i) - At(muscle_state[2], i)
        tendon_strain == Max(Div(tendon_len - At(l0_se, i), At(l0_se, i)), 0)
    IN  Min(Mul(k_se, Sq(tendon_strain)), 3 * SCALE)

\* the normalized passive force of muscle i, from the muscle length of the
\* state given
PassiveForce(i) ==
    LET muscle_strain == Max(Div(At(muscle_state[2], i) - At(l0_pe, i), At(l0_ce, i)), 0)
    IN  Min(Mul(At(k_pe, i), Sq(muscle_strain)), 3 * SCALE)

\* C17: integrate of CompliantTendonHillMuscle returns the muscle length of
\* the state it is given + dt * muscle_vel_n * l0_ce (up to rounding), the
\* muscle velocity muscle_vel_n * vmax, and the forces of the muscle length
\* it is given and the current musculotendon length: flse = min(k_se *
\* tendon_strain ** 2, 3), flpe = min(k_pe * muscle_strain ** 2, 3),
\* active_force = max(flse - flpe, 0), force = flse * max_iso_force.
C17_CompliantIntegrateStep ==
    [][CompliantIntegrateStep =>
          \E dt_ \in DtInputs, d \in CompliantDerivatives :
              \A i \in DOMAIN returned'[1] :
                  /\ Abs(returned'[2][i]
                           - (At(muscle_state[2], i)
                                + Mul(Mul(dt_, At(d[2], i)), At(l0_ce, i)))) <= Tolerance
                  /\ returned'[3][i] = Mul(At(d[2], i), At(vmax, i))
                  /\ returned'[4][i] = PassiveForce(i)
                  /\ returned'[5][i] = TendonForce(i)
                  /\ returned'[6][i] = Max(TendonForce(i) - PassiveForce(i), 0)
                  /\ returned'[7][i] = Mul(TendonForce(i), At(max_iso_force, i))]_vars

\* integrate of CompliantTendonHillMuscle moved the muscle length of a
\* stretched tendon: the state returned has another length than the one
\* given, and a positive tendon force
C17_Witness ==
    /\ variant = "CompliantTendonHillMuscle"
    /\ call.op = "integrate" /\ ~call.raised
    /\ Shaped(muscle_state, state_dim)
    /\ \E i \in Muscles :
           /\ returned[2][i] # muscle_state[2][i]
           /\ returned[3][i] # 0
           /\ returned[5][i] > 0
           /\ returned[7][i] = Mul(returned[5][i], max_iso_force[i])

---------------------------------------------------------------------------
(* Properties of the feedback delay buffers of GRUNetwork.                 *)

\* <<proprio_true, visual_true>> as computed at the end of call t of the
\* network; get_initial_state stands for call 0 and everything before it
ProducedAt(t) == produced[Max(t, 0) + 1]

\* the network has just returned from a call
NetworkCalled == call.op = "GRUNetwork.call" /\ ~call.raised

\* the newest entry of produced is read from the muscle state of the plant:
\* channel 1 (length) over l0_ce, then channel 2 (velocity) over vmax; and
\* from the position half of the cartesian state
ReadFromPlantState ==
    LET newest == produced[Len(produced)]
    IN  /\ Len(newest[1]) = 2 * n_muscles
        /\ \A i \in 1..n_muscles :
               /\ newest[1][i] = Div(states[3][2][i], l0_ce[i])
               /\ newest[1][n_muscles + i] = Div(states[3][3][i], vmax[i])
        /\ newest[2] = << states[2][1], states[2][2] >>

\* C18: the two feedback buffers are queues of fixed length.  After
\* get_initial_state and after every call that returns, each buffer has as
\* many columns as its delay; without noise, column k (from 1) of a buffer of
\* delay d holds, after n calls, the feedback computed at the end of call n +
\* k - d (the initial feedback for n + k - d <= 0), so the newest column is
\* the feedback of the call just made and the feedback that call t fed to
\* the network is the one computed at the end of call t - d; the
\* proprioceptive feedback is the muscle length over l0_ce and the muscle
\* velocity over vmax of the muscle state.
C18_FeedbackBuffersAreQueues ==
    states # None =>
        /\ Len(states[5]) = proprioceptive_delay
        /\ Len(states[6]) = visual_delay
        /\ ReadFromPlantState
        /\ proprioceptive_noise_sd = 0 =>
               /\ \A k \in 1..proprioceptive_delay :
                      states[5][k] = ProducedAt(n_call + k - proprioceptive_delay)[1]
               /\ NetworkCalled => proprio_fb = ProducedAt(n_call - proprioceptive_delay)[1]
        /\ visual_noise_sd = 0 =>
               /\ \A k \in 1..visual_delay :
                      states[6][k] = ProducedAt(n_call + k - visual_delay)[2]
               /\ NetworkCalled => visual_fb = ProducedAt(n_call - visual_delay)[2]

\* the third call of a network without noise and with delays 2 and 1 fed the
\* network the proprioceptive feedback of the first call and the visual
\* feedback of the second, each other than the initial feedback and other
\* than the one this call computed
C18_Witness ==
    /\ NetworkCalled
    /\ proprioceptive_noise_sd = 0 /\ visual_noise_sd = 0
    /\ proprioceptive_delay = 2 /\ visual_delay = 1
    /\ n_call = 3
    /\ proprio_fb = produced[2][1]
    /\ proprio_fb # produced[1][1] /\ proprio_fb # produced[4][1]
    /\ visual_fb = produced[3][2]
    /\ visual_fb # produced[1][2] /\ visual_fb # produced[4][2]

===========================================================================
